---------------------------- MODULE Spec2Model ----------------------------
(***************************************************************************)
(* Verification model of skylar-Youn/mcp-playwright-gpt.                   *)
(*                                                                         *)
(* The module holds one state machine per subsystem:                       *)
(*   SpecSubtitles  ai_shorts_maker/subtitles.py  allocate_caption_timings *)
(*   SpecProject    ai_shorts_maker/services.py + repository.py (editing,  *)
(*                  versioning and backup-on-write of the metadata file)   *)
(*   SpecRender     ai_shorts_maker/services.py render_project (the base   *)
(*                  track's clip sequence)                                 *)
(*   SpecCrawler    11.coupang_wing_web.py (api_search / run_scraper)      *)
(*   SpecRank       2_app_web_coupang_rank_chrome_secretmode_server3ok.py  *)
(*                  (start_search / stop_search / scheduler /              *)
(*                  perform_search)                                        *)
(*   SpecApp        web_app/app.py (generate / api_render_project)         *)
(*   SpecEdits      concurrent api_add_subtitle requests on one project    *)
(*   SpecTranslator ai_shorts_maker/translator.py + web_app/app.py         *)
(*                  (editing the segments of a translator project)         *)
(*   SpecScrape     11.coupang_wing_web.py (one call of scrape_coupang)    *)
(*   SpecPipeline   ai_shorts_maker/translator.py (the pipeline steps of a  *)
(*                  translator project)                                    *)
(*   SpecTranslatorOps  the same with reset_project_to_translated          *)
(*   SpecReorder    ai_shorts_maker/translator.py                          *)
(*                  (reorder_project_segments)                             *)
(*   SpecBuildSegments  ai_shorts_maker/translator.py (_build_segments)    *)
(*   SpecPages      2_app_web_coupang_rank_chrome_secretmode_server3ok.py  *)
(*                  (one call of search_product)                           *)
(* Each specification moves the variables of its own subsystem and leaves  *)
(* the others at rest.                                                     *)
(*                                                                         *)
(* Time values.  The Python code computes with floats.  Here every time is *)
(* an exact rational: an integer numerator over a denominator that is      *)
(* fixed per call.  IEEE rounding (an error of a few ulp) is below the     *)
(* resolution of this model.                                               *)
(***************************************************************************)
EXTENDS Integers, Sequences, FiniteSets, TLC

VARIABLES
    \* ---- subtitles.py: one call of allocate_caption_timings
    sentences,        \* argument: the list of sentence texts
    total_duration,   \* argument: tenths of a second
    captions,         \* the returned list of CaptionLine
    alloc_pc,         \* "call" before the call, "returned" after it
    \* ---- services.py / repository.py: one project's files
    meta_file,        \* <base_name>.metadata.json: a ProjectMetadata blob, or NoFile
    backups,          \* <base_name>_versions/: version number -> blob
    srt_file,         \* the file at metadata.subtitles_path
    clock,            \* datetime.utcnow(), advanced by every call that saves
    last_call,        \* the last service call and how it ended
    last_subtitle_id, \* the subtitle id the last service call named, or NoId
    legacy_file,      \* <base_name>.json, written by generate_short with save_json
    \* ---- services.py: the base track built by one call of render_project
    timeline,         \* metadata.timeline, sorted by start (line 654)
    base_duration,    \* metadata.duration, milliseconds
    clips,            \* the list `clips` handed to concatenate_videoclips
    render_pc,        \* "call" before the clips are built, "built" after
    \* ---- 11.coupang_wing_web.py
    playwright_available, \* PLAYWRIGHT_AVAILABLE, fixed at import
    is_scraping,      \* the global flag
    scraping_results, \* the global result list: the request whose job wrote it last
    request_pc,       \* per POST /api/search request: its answer so far
    thread_pc,        \* per request: where the run_scraper thread it started stands
    \* ---- 2_app_web_coupang_rank_chrome_secretmode_server3ok.py
    search_active,    \* the global flag
    rank_pc,          \* per perform_search thread: where it stands
    rank_origin,      \* per thread: "start_search" or "scheduler"
    rank_row,         \* per thread: how many rows of the Excel file it has started
    last_start,       \* the answer of the last start_search request
    stop_pending,     \* observer: the threads that were executing at the last
                      \* stop_search, while no start_search has followed it
    \* ---- web_app/app.py: POST /generate and POST /api/projects/{}/render
    job_kind,         \* per request: "generate" or "render"
    job_pc,           \* per request: "not_sent", "running" or "answered"
    job_answer,       \* per request: the response
    \* ---- concurrent api_add_subtitle requests (services.add_subtitle)
    edit_pc,          \* per request: "not_sent", "loaded" or "answered"
    edit_metadata,    \* per request: the local variable `metadata`
    edit_base,        \* observer: the version the request loaded
    edit_answer,      \* per request: the HTTP status
    \* ---- translator.py: one translator project
    tr_file,          \* <project_id>.json: a TranslatorProject blob, or NoFile
    tr_versions,      \* versions/<project_id>/v<n>.json, in order
    tr_clock,         \* datetime.utcnow(), advanced by every save
    tr_request,       \* the last request: its route and JSON body
    tr_response,      \* the answer to it: the status and what was raised
    \* ---- 11.coupang_wing_web.py: one call of scrape_coupang
    scrape_pc,        \* where the coroutine stands
    goto_attempt,     \* the loop variable `attempt`
    goto_calls,       \* observer: how many times page.goto has been called
    products,         \* the elements query_selector_all returned
    product_idx,      \* how many of them the loop has handled
    results_len,      \* len(results)
    browser,          \* "none", "open" or "closed"
    scrape_error,     \* the call whose exception ended the scrape, or "none"
    \* ---- rank server: one call of search_product
    page,             \* the local variable `page`
    page_loads,       \* observer: the passes of the page loop so far (up to MaxLoads)
    pass_parity,      \* observer: whether that number is odd
    last_outcome,     \* observer: how the last pass ended
    sp_pc,            \* "loop" or "returned"
    sp_result,        \* what was returned: "found", "not_found" or "none"
    \* ---- translator pipeline
    tp_file,          \* the project file <project_id>.json
    tp_versions,      \* the number of version files versions/<project_id>/v*.json
    tp_subtitle,      \* what project.source_subtitle names
    tp_call,          \* per thread: the call it runs, its position and its `project`
    tp_last,          \* observer: the last call that returned and what it returned
    tp_statuses,      \* observer: the statuses written to the project file, in order
    tp_started,       \* observer: the number of calls made
    \* ---- translator: one call of _build_segments
    bs_duration,      \* the argument duration (None or Some(d))
    bs_max_length,    \* the argument max_length
    bs_subtitle,      \* "none", "unusable" or "usable": what subtitle_path names
    bs_start,         \* the local variable `start`
    bs_clip_index,    \* the local variable `clip_index`
    bs_segments,      \* the local variable `segments`, at the end the return value
    bs_pc             \* "called", "loop", "returned" or "ValidationError"

subVars == <<sentences, total_duration, captions, alloc_pc>>
projVars == <<meta_file, backups, srt_file, clock, last_call, last_subtitle_id, legacy_file>>
renderVars == <<timeline, base_duration, clips, render_pc>>
crawlVars == <<playwright_available, is_scraping, scraping_results, request_pc, thread_pc>>
rankVars == <<search_active, rank_pc, rank_origin, rank_row, last_start, stop_pending>>
appVars == <<job_kind, job_pc, job_answer>>
editVars == <<edit_pc, edit_metadata, edit_base, edit_answer>>
transVars == <<tr_file, tr_versions, tr_clock, tr_request, tr_response>>
buildVars == <<bs_duration, bs_max_length, bs_subtitle, bs_start, bs_clip_index, bs_segments, bs_pc>>
pipeVars == <<tp_file, tp_versions, tp_subtitle, tp_call, tp_last, tp_statuses, tp_started>>
pageVars == <<page, page_loads, pass_parity, last_outcome, sp_pc, sp_result>>
scrapeVars == <<scrape_pc, goto_attempt, goto_calls, products, product_idx, results_len, browser, scrape_error>>

vars == <<subVars, projVars, renderVars, crawlVars, rankVars, appVars, editVars, transVars, scrapeVars, pageVars, pipeVars, buildVars>>

Max(a, b) == IF a >= b THEN a ELSE b
Min(a, b) == IF a <= b THEN a ELSE b

RECURSIVE SumSeq(_)
SumSeq(s) == IF s = <<>> THEN 0 ELSE Head(s) + SumSeq(Tail(s))

(***************************************************************************)
(*                     subtitles.py: the caption allocator                 *)
(***************************************************************************)

\* Bounds of the inputs.
MaxSentences == 3
MaxDuration == 40

\* The sentence texts the inputs are drawn from (lengths 0..4).
SentenceTexts == {"", "a", "bb", "abc", "dddd"}

SentenceLists == UNION {[1..n -> SentenceTexts] : n \in 0..MaxSentences}

\* The 1.2 s floor of line 45, in tenths of a second.
MinCaptionTenths == 12

\* total_chars = sum(len(s) for s in sentences)
TotalChars(ss) == SumSeq([i \in 1..Len(ss) |-> Len(ss[i])])

\* The denominator of the times of one call: a time t of the code is the
\* integer t * 10 * TimeScale(ss) here.  Both branches divide by exactly one
\* number (total_chars, or len(sentences) when total_chars = 0).
TimeScale(ss) == IF TotalChars(ss) = 0 THEN Len(ss) ELSE TotalChars(ss)

\* total_duration in the units of the call.
ScaledTotal(ss, total) == total * TimeScale(ss)

\* 1.2 s in the units of the call.
ScaledFloor(ss) == MinCaptionTenths * TimeScale(ss)

\* Lines 37-39: total_chars = 0.  share = total_duration / len(sentences);
\* in units of 1/len(sentences) the share is total_duration itself.
EvenShareCaptions(ss, total) ==
    [i \in 1..Len(ss) |-> [start |-> (i - 1) * total,
                           end   |-> i * total,
                           text  |-> ss[i]]]

\* A mutant of CaptionDuration: the floor is dropped.
CaptionDurationNoFloor(len, total_chars, total) == total * len

\* A mutant of CaptionDuration: the floor is 1.5 s.
CaptionDurationHighFloor(len, total_chars, total) ==
    Max(total * len, 15 * total_chars)

\* Lines 44-45: duration = max(total_duration * len(sentence) / total_chars, 1.2),
\* in units of 1/total_chars.
CaptionDuration(len, total_chars, total) ==
    Max(total * len, MinCaptionTenths * total_chars)

\* A mutant of CaptionEnd: the end is not clamped.
CaptionEndUnclamped(cursor, duration, scaled_total) == cursor + duration

\* Line 47: end = min(cursor + duration, total_duration).
CaptionEnd(cursor, duration, scaled_total) == Min(cursor + duration, scaled_total)

\* A mutant of AllocateLoop: the cursor advances by the unclamped duration.
RECURSIVE AllocateLoopCursorDrift(_, _, _, _, _)
AllocateLoopCursorDrift(ss, total, i, cursor, acc) ==
    IF i > Len(ss) THEN acc
    ELSE LET total_chars == TotalChars(ss)
             duration == CaptionDuration(Len(ss[i]), total_chars, total)
             end == CaptionEnd(cursor, duration, total * total_chars)
         IN AllocateLoopCursorDrift(ss, total, i + 1, cursor + duration,
                         Append(acc, [start |-> cursor, end |-> end, text |-> ss[i]]))

\* Lines 41-49: the loop, from sentence i on, with the captions so far.
RECURSIVE AllocateLoop(_, _, _, _, _)
AllocateLoop(ss, total, i, cursor, acc) ==
    IF i > Len(ss) THEN acc
    ELSE LET total_chars == TotalChars(ss)
             duration == CaptionDuration(Len(ss[i]), total_chars, total)
             start == cursor
             end == CaptionEnd(cursor, duration, total * total_chars)
         IN AllocateLoop(ss, total, i + 1, end,
                         Append(acc, [start |-> start, end |-> end, text |-> ss[i]]))

\* Lines 51-52: captions[-1].end = total_duration.
ForceLastEnd(caps, scaled_total) ==
    IF caps = <<>> THEN caps
    ELSE [caps EXCEPT ![Len(caps)].end = scaled_total]

\* A mutant of AllocateCaptionTimingsOf: sentences without characters are skipped.
AllocateSkippingEmpty(ss, total) ==
    LET keep == SelectSeq(ss, LAMBDA s : Len(s) > 0)
    IN IF ss = <<>> THEN <<>>
       ELSE IF TotalChars(ss) = 0 THEN EvenShareCaptions(ss, total)
       ELSE ForceLastEnd(AllocateLoop(keep, total, 1, 0, <<>>), total * TotalChars(ss))

\* Lines 31-53: allocate_caption_timings(sentences, total_duration).
AllocateCaptionTimingsOf(ss, total) ==
    IF ss = <<>> THEN <<>>
    ELSE IF TotalChars(ss) = 0 THEN EvenShareCaptions(ss, total)
    ELSE ForceLastEnd(AllocateLoop(ss, total, 1, 0, <<>>), total * TotalChars(ss))

AllocateCaptionTimings ==
    /\ alloc_pc = "call"
    /\ captions' = AllocateCaptionTimingsOf(sentences, total_duration)
    /\ alloc_pc' = "returned"
    /\ UNCHANGED <<sentences, total_duration>>
    /\ UNCHANGED <<projVars, renderVars, crawlVars, rankVars, appVars, editVars, transVars, scrapeVars, pageVars, pipeVars, buildVars>>


(***************************************************************************)
(*        services.py / repository.py: editing one project's metadata      *)
(*                                                                         *)
(* A blob is the JSON object of the metadata file.  Of ProjectMetadata it  *)
(* keeps the fields the editing calls write.  Caption times are tenths of  *)
(* a second; request payloads carry hundredths, which _round_time rounds.  *)
(***************************************************************************)

\* How many saving calls one behaviour makes.
MaxCalls == 3

\* No file at the path.
NoFile == [missing |-> TRUE]

\* Optional[...] = None
None == <<>>
Some(v) == <<v>>

\* Lines 110-116 of services.py: float(round(float(value), 1)), from
\* hundredths to tenths (a tie goes to the even tenth).
RoundTime(v) ==
    LET q == v \div 10
        r == v % 10
    IN IF r < 5 THEN q
       ELSE IF r > 5 THEN q + 1
       ELSE IF q % 2 = 0 THEN q ELSE q + 1

\* subtitles.py lines 93-98: format_timestamp, from tenths of a second.
FormatTimestamp(tenths) ==
    LET millis == tenths * 100
        hours == millis \div 3600000
        rem1 == millis % 3600000
        minutes == rem1 \div 60000
        rem2 == rem1 % 60000
    IN <<hours, minutes, rem2 \div 1000, rem2 % 1000>>

\* subtitles.py lines 56-64 and 84-90: the SRT blocks written for the captions.
CaptionsToSrt(caps) ==
    [i \in 1..Len(caps) |-> [index |-> i,
                             start |-> FormatTimestamp(caps[i].start),
                             end   |-> FormatTimestamp(caps[i].end),
                             text  |-> caps[i].text]]

\* list.sort(key=lambda s: s.start): a stable sort.
RECURSIVE InsertByStart(_, _)
InsertByStart(sorted, line) ==
    IF sorted = <<>> THEN <<line>>
    ELSE IF Head(sorted).start <= line.start
         THEN <<Head(sorted)>> \o InsertByStart(Tail(sorted), line)
         ELSE <<line>> \o sorted

RECURSIVE SortByStart(_)
SortByStart(lines) ==
    IF lines = <<>> THEN <<>>
    ELSE InsertByStart(SortByStart(SubSeq(lines, 1, Len(lines) - 1)), lines[Len(lines)])

\* The project as generator.py lines 177-228 writes it: version 1, one caption,
\* one b-roll segment, no versions directory.
GeneratedCaption ==
    [id |-> 0, start |-> 0, end |-> 20, text |-> "intro",
     created_at |-> 0, updated_at |-> 0]

GeneratedSegment ==
    [id |-> "s0", media_type |-> "broll", source |-> "auto", start |-> 0, end |-> 300]

GeneratedProject ==
    [version |-> 1, updated_at |-> 0, duration |-> 300,
     captions |-> <<GeneratedCaption>>,
     timeline |-> <<GeneratedSegment>>,
     music_enabled |-> TRUE, music_track |-> "none",
     font_size |-> 62,
     video_path |-> <<"generated", 0>>,
     subtitles_path |-> "project.srt"]

\* generator.py lines 94-112: what a dry run with save_json leaves in
\* <base_name>.json: the script's data, without the fields of ProjectMetadata.
DryRunJson == [dry_run |-> TRUE]

\* repository.py lines 66-75: the metadata file when it exists, otherwise the
\* legacy file <base_name>.json.
LoadedData == IF meta_file # NoFile THEN meta_file ELSE legacy_file

\* repository.py lines 75 and 110: neither file exists (FileNotFoundError), or
\* ProjectMetadata.model_validate rejects the data (pydantic's
\* ValidationError, a ValueError).
LoadError ==
    IF LoadedData = NoFile THEN "FileNotFoundError"
    ELSE IF LoadedData = DryRunJson THEN "ValidationError"
    ELSE "none"

\* repository.py lines 62-110: load_project returns the validated content
\* (a load that raises is load_project_fails).
LoadProject == LoadedData

\* services.py lines 105-107: _touch.
Touch(metadata, now) ==
    [metadata EXCEPT !.version = metadata.version + 1, !.updated_at = now]

\* repository.py lines 126-134: the versions directory after save_project has
\* made its backup of the file it is about to overwrite.
BackupsAfterSave(metadata, file, bks) ==
    IF file = NoFile THEN bks
    ELSE LET prev_version == IF file.version # 0 THEN file.version
                             ELSE Max(metadata.version - 1, 1)
         IN IF prev_version \in DOMAIN bks THEN bks
            ELSE bks @@ (prev_version :> file)

\* repository.py lines 116 and 136-144: the blob save_project writes.
BlobAfterSave(metadata, now) == [metadata EXCEPT !.updated_at = now]

\* repository.py lines 146-147: the SRT file after save_project.
SrtAfterSave(metadata, srt) ==
    IF metadata.subtitles_path # "" THEN [blocks |-> CaptionsToSrt(metadata.captions)]
    ELSE srt

\* repository.py lines 113-149: save_project(metadata), ending service call op.
SaveProject(metadata, op) ==
    /\ clock <= MaxCalls
    /\ backups' = BackupsAfterSave(metadata, meta_file, backups)
    /\ meta_file' = BlobAfterSave(metadata, clock)
    /\ srt_file' = SrtAfterSave(metadata, srt_file)
    /\ clock' = clock + 1
    /\ last_call' = [op |-> op, result |-> "ok"]
    /\ UNCHANGED legacy_file

\* A service call that raises before it saves anything.
Raise(op, exception) ==
    /\ last_call' = [op |-> op, result |-> exception]
    /\ UNCHANGED <<meta_file, backups, srt_file, clock, legacy_file>>

\* The request bodies tried: SubtitleCreate (models.py lines 138-141), in
\* hundredths of a second.
SubtitleCreates ==
    {[start |-> 0, end |-> 196, text |-> "hi"],
     [start |-> 104, end |-> 196, text |-> "hi"],
     [start |-> 0, end |-> 4, text |-> "hi"]}

\* SubtitleUpdate (models.py lines 144-147).
SubtitleUpdates ==
    {[start |-> None, end |-> None, text |-> Some("new")],
     [start |-> Some(296), end |-> None, text |-> None]}

\* TimelineUpdate (models.py lines 150-151).
TimelineUpdates ==
    {<<>>,
     <<[id |-> "s1", media_type |-> "broll", source |-> "auto", start |-> 0, end |-> 100],
       [id |-> "s2", media_type |-> "image", source |-> "auto", start |-> 50, end |-> 150]>>}

\* Subtitle ids a request may name: those of the project and one that is absent.
AbsentId == 0 - 1
\* The value of last_subtitle_id after a call that names no subtitle.
NoId == 0 - 2
SubtitleIds(file) ==
    IF file = NoFile \/ file = DryRunJson THEN {AbsentId}
    ELSE {file.captions[i].id : i \in 1..Len(file.captions)} \cup {AbsentId}

\* uuid4(): an id no other line has.
NewId == clock

\* services.py lines 119-136.
add_subtitle(payload) ==
    /\ LoadError = "none"
    /\ LET metadata == LoadProject
           start == RoundTime(payload.start)
           end == RoundTime(payload.end)
           new_line == [id |-> NewId, start |-> start, end |-> end,
                        text |-> payload.text,
                        created_at |-> clock, updated_at |-> clock]
       IN IF end <= 0
          THEN \* SubtitleLine(end=...) is validated: Field(gt=0)
               Raise("add_subtitle", "ValueError")
          ELSE SaveProject(
                   Touch([metadata EXCEPT
                             !.captions = SortByStart(Append(metadata.captions, new_line))],
                         clock),
                   "add_subtitle")
    /\ last_subtitle_id' = NoId
    /\ UNCHANGED <<subVars, renderVars, crawlVars, rankVars, appVars, editVars, transVars, scrapeVars, pageVars, pipeVars, buildVars>>

\* services.py lines 139-160.
update_subtitle(subtitle_id, payload) ==
    /\ LoadError = "none"
    /\ LET metadata == LoadProject
           found == {i \in 1..Len(metadata.captions) : metadata.captions[i].id = subtitle_id}
       IN IF found = {}
          THEN Raise("update_subtitle", "KeyError")
          ELSE LET i == CHOOSE k \in found : \A j \in found : k <= j
                   target == metadata.captions[i]
                   edited == [target EXCEPT
                       !.start = IF payload.start # None
                                 THEN RoundTime(payload.start[1]) ELSE @,
                       !.end = IF payload.end # None
                               THEN RoundTime(payload.end[1]) ELSE @,
                       !.text = IF payload.text # None THEN payload.text[1] ELSE @,
                       !.updated_at = clock]
               IN SaveProject(
                      Touch([metadata EXCEPT
                                !.captions = SortByStart([metadata.captions EXCEPT ![i] = edited])],
                            clock),
                      "update_subtitle")
    /\ last_subtitle_id' = subtitle_id
    /\ UNCHANGED <<subVars, renderVars, crawlVars, rankVars, appVars, editVars, transVars, scrapeVars, pageVars, pipeVars, buildVars>>

\* A variant of delete_subtitle_line without the check of lines 167-168: it
\* saves whether or not a line was removed.
delete_subtitle_line_unchecked(subtitle_id) ==
    /\ LoadError = "none"
    /\ LET metadata == LoadProject
           kept == SelectSeq(metadata.captions, LAMBDA sub : sub.id # subtitle_id)
       IN SaveProject(Touch([metadata EXCEPT !.captions = kept], clock),
                      "delete_subtitle_line")
    /\ last_subtitle_id' = subtitle_id
    /\ UNCHANGED <<subVars, renderVars, crawlVars, rankVars, appVars, editVars, transVars, scrapeVars, pageVars, pipeVars, buildVars>>

\* services.py lines 163-170.
delete_subtitle_line(subtitle_id) ==
    /\ LoadError = "none"
    /\ LET metadata == LoadProject
           kept == SelectSeq(metadata.captions, LAMBDA sub : sub.id # subtitle_id)
       IN IF Len(kept) = Len(metadata.captions)
          THEN Raise("delete_subtitle_line", "KeyError")
          ELSE SaveProject(Touch([metadata EXCEPT !.captions = kept], clock),
                           "delete_subtitle_line")
    /\ last_subtitle_id' = subtitle_id
    /\ UNCHANGED <<subVars, renderVars, crawlVars, rankVars, appVars, editVars, transVars, scrapeVars, pageVars, pipeVars, buildVars>>

\* services.py lines 173-177.
replace_timeline(segments) ==
    /\ LoadError = "none"
    /\ SaveProject(Touch([LoadProject EXCEPT !.timeline = segments], clock),
                   "replace_timeline")
    /\ last_subtitle_id' = NoId
    /\ UNCHANGED <<subVars, renderVars, crawlVars, rankVars, appVars, editVars, transVars, scrapeVars, pageVars, pipeVars, buildVars>>

\* services.py lines 180-199 (music_enabled of the four optional settings).
update_audio_settings(music_enabled) ==
    /\ LoadError = "none"
    /\ SaveProject(
           Touch([LoadProject EXCEPT
                     !.music_enabled = IF music_enabled # None THEN music_enabled[1] ELSE @],
                 clock),
           "update_audio_settings")
    /\ last_subtitle_id' = NoId
    /\ UNCHANGED <<subVars, renderVars, crawlVars, rankVars, appVars, editVars, transVars, scrapeVars, pageVars, pipeVars, buildVars>>

\* services.py lines 202-242 (font_size of the optional style fields).
update_subtitle_style(font_size) ==
    /\ LoadError = "none"
    /\ SaveProject(
           Touch([LoadProject EXCEPT
                     !.font_size = IF font_size # None THEN font_size[1] ELSE @],
                 clock),
           "update_subtitle_style")
    /\ last_subtitle_id' = NoId
    /\ UNCHANGED <<subVars, renderVars, crawlVars, rankVars, appVars, editVars, transVars, scrapeVars, pageVars, pipeVars, buildVars>>

\* services.py lines 652-807, a render that writes its video: the new video
\* path, the duration of the rendered clip (the longer of the timeline and the
\* voice track, media.py attach_audio) and the music track that was mixed in.
render_project_ok(voice_duration, selected_music) ==
    /\ LoadError = "none"
    /\ LET metadata == LoadProject
       IN SaveProject(
              Touch([metadata EXCEPT
                        !.video_path = <<"render", clock>>,
                        !.duration = Max(metadata.duration, voice_duration),
                        !.music_track = IF selected_music # None
                                        THEN selected_music[1] ELSE @],
                    clock),
              "render_project")
    /\ last_subtitle_id' = NoId
    /\ UNCHANGED <<subVars, renderVars, crawlVars, rankVars, appVars, editVars, transVars, scrapeVars, pageVars, pipeVars, buildVars>>

\* services.py lines 744-755 and 808-832: a render that raises (a media source
\* that cannot be read, no voice path, a failed encode) saves nothing.
render_project_fails ==
    /\ LoadError = "none"
    /\ Raise("render_project", "RuntimeError")
    /\ last_subtitle_id' = NoId
    /\ UNCHANGED <<subVars, renderVars, crawlVars, rankVars, appVars, editVars, transVars, scrapeVars, pageVars, pipeVars, buildVars>>

\* services.py lines 835-838 with repository.py lines 213-219.
restore_project_version(version) ==
    /\ IF version \notin DOMAIN backups
       THEN Raise("restore_project_version", "FileNotFoundError")
       ELSE SaveProject(Touch(backups[version], clock), "restore_project_version")
    /\ last_subtitle_id' = NoId
    /\ UNCHANGED <<subVars, renderVars, crawlVars, rankVars, appVars, editVars, transVars, scrapeVars, pageVars, pipeVars, buildVars>>

\* repository.py lines 152-176: delete_project removes the media files and the
\* metadata file; the versions directory stays.
delete_project ==
    /\ LoadError = "none"
    /\ meta_file' = NoFile
    /\ srt_file' = NoFile
    /\ last_call' = [op |-> "delete_project", result |-> "ok"]
    /\ UNCHANGED <<backups, clock, legacy_file>>
    /\ last_subtitle_id' = NoId
    /\ UNCHANGED <<subVars, renderVars, crawlVars, rankVars, appVars, editVars, transVars, scrapeVars, pageVars, pipeVars, buildVars>>

\* repository.py lines 66-75 and 110: load_project finds neither file, or
\* data it cannot validate, so the service call op raises before it changes
\* anything.
EditingCalls ==
    {"add_subtitle", "update_subtitle", "delete_subtitle_line", "replace_timeline",
     "update_audio_settings", "update_subtitle_style", "render_project", "delete_project"}

load_project_fails(op) ==
    /\ LoadError # "none"
    /\ Raise(op, LoadError)
    /\ last_subtitle_id' = NoId
    /\ UNCHANGED <<subVars, renderVars, crawlVars, rankVars, appVars, editVars, transVars, scrapeVars, pageVars, pipeVars, buildVars>>

ProjNext ==
    \/ \E payload \in SubtitleCreates : add_subtitle(payload)
    \/ \E id \in SubtitleIds(LoadedData), payload \in SubtitleUpdates :
          update_subtitle(id, payload)
    \/ \E id \in SubtitleIds(LoadedData) : delete_subtitle_line(id)
    \/ \E segments \in TimelineUpdates : replace_timeline(segments)
    \/ \E music_enabled \in {None, Some(FALSE)} : update_audio_settings(music_enabled)
    \/ \E font_size \in {None, Some(48)} : update_subtitle_style(font_size)
    \/ \E voice_duration \in {300, 310}, selected_music \in {None, Some("bgm.mp3")} :
          render_project_ok(voice_duration, selected_music)
    \/ render_project_fails
    \/ \E version \in 1..(MaxCalls + 1) : restore_project_version(version)
    \/ delete_project
    \/ \E op \in EditingCalls : load_project_fails(op)

\* The calls that edit subtitle lines, with the deletion of the project and
\* the calls that find nothing to load.
SubtitleEditNext ==
    \/ \E payload \in SubtitleCreates : add_subtitle(payload)
    \/ \E id \in SubtitleIds(LoadedData), payload \in SubtitleUpdates :
          update_subtitle(id, payload)
    \/ \E id \in SubtitleIds(LoadedData) : delete_subtitle_line(id)
    \/ delete_project
    \/ \E op \in EditingCalls : load_project_fails(op)

\* web_app/app.py lines 208-310: the HTTP status of a service call that ended
\* with `result`.  Every route turns FileNotFoundError into 404; the routes of
\* update_subtitle and delete_subtitle_line also turn KeyError into 404; those
\* of add_subtitle and update_subtitle turn ValueError into 400, that of
\* render_project RuntimeError; any other exception is a 500.
HttpStatus(op, result) ==
    IF result = "ok" THEN (IF op = "delete_project" THEN 204 ELSE 200)
    ELSE IF result = "FileNotFoundError" THEN 404
    ELSE IF result = "KeyError" /\ op \in {"update_subtitle", "delete_subtitle_line"} THEN 404
    ELSE IF result \in {"ValueError", "ValidationError"} /\ op \in {"add_subtitle", "update_subtitle"} THEN 400
    ELSE IF result = "RuntimeError" /\ op = "render_project" THEN 400
    ELSE 500

(***************************************************************************)
(*          services.py: the base track render_project builds              *)
(*                                                                         *)
(* Times are milliseconds.  A clip is [kind, segment, duration]: kind is    *)
(* "segment" (the clip of _segment_to_clip for the base segment at that     *)
(* position of the sorted base list) or "filler" (a clip of _gap_clip).     *)
(***************************************************************************)

\* How many segments the timeline of a rendered project holds.
MaxSegments == 2

\* The start and end times the segments are drawn from (a grid of seconds).
TimePoints == {0, 1000, 2000, 3000}

\* metadata.duration of the rendered project: no segment ends after it.
ProjectDurations == {3000, 4000}

\* TimelineSegment (models.py lines 32-40): start >= 0, end > 0.
TimelineSegments ==
    [media_type : {"broll", "image"},
     start : TimePoints,
     end : TimePoints \ {0}]

Timelines == UNION {[1..n -> TimelineSegments] : n \in 0..MaxSegments}

\* The 1e-3 s tolerance of lines 710 and 722.
GapToleranceMs == 1

\* The 0.1 s least clip duration of line 413.
MinClipMs == 100

\* Lines 263-266: _is_overlay (segments here carry no extras["overlay"]).
IsOverlay(segment) == segment.media_type \in {"image", "overlay", "image_overlay"}

\* Line 698: the segments of the base track, in the order of the sorted timeline.
BaseSegments(sorted_timeline) == SelectSeq(sorted_timeline, LAMBDA seg : ~IsOverlay(seg))

\* Line 413: the duration _segment_to_clip gives the clip of a segment.
SegmentClipDuration(segment) == Max(segment.end - segment.start, MinClipMs)

\* Lines 705-720: the loop over the base segments, from segment i on, with the
\* cursor and the clips so far; the result is the pair <<clips, cursor>>.
RECURSIVE BaseTrackLoop(_, _, _, _)
BaseTrackLoop(base_segments, i, cur, acc) ==
    IF i > Len(base_segments) THEN <<acc, cur>>
    ELSE LET segment == base_segments[i]
             seg_duration == Max(segment.end - segment.start, 0)
         IN IF seg_duration <= 0
            THEN BaseTrackLoop(base_segments, i + 1, cur, acc)
            ELSE LET gapped == segment.start > cur + GapToleranceMs
                     gap == segment.start - cur
                     with_filler ==
                         IF gapped
                         THEN Append(acc, [kind |-> "filler", segment |-> 0, duration |-> gap])
                         ELSE acc
                     cur2 == IF gapped THEN cur + gap ELSE cur
                     clip == [kind |-> "segment", segment |-> i,
                              duration |-> SegmentClipDuration(segment)]
                 IN BaseTrackLoop(base_segments, i + 1, Max(cur2, segment.end),
                                  Append(with_filler, clip))

\* Lines 722-725: the filler after the last base segment.
WithTailFiller(loop_result, duration) ==
    LET built == loop_result[1]
        cur == loop_result[2]
    IN IF cur < duration - GapToleranceMs
       THEN Append(built, [kind |-> "filler", segment |-> 0, duration |-> duration - cur])
       ELSE built

\* Lines 698-725: the list `clips` for a sorted timeline.
BuildClips(sorted_timeline, duration) ==
    WithTailFiller(BaseTrackLoop(BaseSegments(sorted_timeline), 1, 0, <<>>), duration)

\* Lines 654 and 698-725 of render_project.
render_project_build_clips ==
    /\ render_pc = "call"
    /\ clips' = BuildClips(SortByStart(timeline), base_duration)
    /\ render_pc' = "built"
    /\ UNCHANGED <<timeline, base_duration>>
    /\ UNCHANGED <<subVars, projVars, crawlVars, rankVars, appVars, editVars, transVars, scrapeVars, pageVars, pipeVars, buildVars>>

RenderNext == render_project_build_clips

(***************************************************************************)
(*        11.coupang_wing_web.py: POST /api/search and run_scraper         *)
(*                                                                         *)
(* The handler api_search runs as one step (it does not block); the thread *)
(* it starts runs run_scraper statement by statement, interleaved with     *)
(* other requests and other threads.                                       *)
(***************************************************************************)

\* How many POST /api/search requests arrive.
MaxRequests == 3

Requests == 1..MaxRequests

\* Lines 467-485: api_search answers 400 while the flag is set, 500 without
\* Playwright, and otherwise starts a run_scraper thread and answers success.
api_search(r) ==
    /\ request_pc[r] = "not_sent"
    /\ IF is_scraping
       THEN /\ request_pc' = [request_pc EXCEPT ![r] = "400"]
            /\ UNCHANGED thread_pc
       ELSE IF ~playwright_available
       THEN /\ request_pc' = [request_pc EXCEPT ![r] = "500"]
            /\ UNCHANGED thread_pc
       ELSE /\ request_pc' = [request_pc EXCEPT ![r] = "200"]
            /\ thread_pc' = [thread_pc EXCEPT ![r] = "started"]
    /\ UNCHANGED <<playwright_available, is_scraping, scraping_results>>
    /\ UNCHANGED <<subVars, projVars, renderVars, rankVars, appVars, editVars, transVars, scrapeVars, pageVars, pipeVars, buildVars>>

\* Line 424: the thread's first statement, is_scraping = True.
run_scraper_set_flag(r) ==
    /\ thread_pc[r] = "started"
    /\ is_scraping' = TRUE
    /\ thread_pc' = [thread_pc EXCEPT ![r] = "scraping"]
    /\ UNCHANGED <<playwright_available, scraping_results, request_pc>>
    /\ UNCHANGED <<subVars, projVars, renderVars, rankVars, appVars, editVars, transVars, scrapeVars, pageVars, pipeVars, buildVars>>

\* Lines 425-435: scrape_coupang returns and its results are stored.
run_scraper_scraped(r) ==
    /\ thread_pc[r] = "scraping"
    /\ scraping_results' = r
    /\ thread_pc' = [thread_pc EXCEPT ![r] = "finishing"]
    /\ UNCHANGED <<playwright_available, is_scraping, request_pc>>
    /\ UNCHANGED <<subVars, projVars, renderVars, rankVars, appVars, editVars, transVars, scrapeVars, pageVars, pipeVars, buildVars>>

\* Lines 437-442: scrape_coupang raises; the error is emitted.
run_scraper_raised(r) ==
    /\ thread_pc[r] = "scraping"
    /\ thread_pc' = [thread_pc EXCEPT ![r] = "finishing"]
    /\ UNCHANGED <<playwright_available, is_scraping, scraping_results, request_pc>>
    /\ UNCHANGED <<subVars, projVars, renderVars, rankVars, appVars, editVars, transVars, scrapeVars, pageVars, pipeVars, buildVars>>

\* Lines 443-444: finally, is_scraping = False.
run_scraper_finally(r) ==
    /\ thread_pc[r] = "finishing"
    /\ is_scraping' = FALSE
    /\ thread_pc' = [thread_pc EXCEPT ![r] = "done"]
    /\ UNCHANGED <<playwright_available, scraping_results, request_pc>>
    /\ UNCHANGED <<subVars, projVars, renderVars, rankVars, appVars, editVars, transVars, scrapeVars, pageVars, pipeVars, buildVars>>

CrawlNext ==
    \E r \in Requests :
        \/ api_search(r)
        \/ run_scraper_set_flag(r)
        \/ run_scraper_scraped(r)
        \/ run_scraper_raised(r)
        \/ run_scraper_finally(r)

(***************************************************************************)
(*   2_app_web_coupang_rank_chrome_secretmode_server3ok.py: the busy flag  *)
(*                                                                         *)
(* perform_search runs in a thread started by start_search or by the       *)
(* scheduler's 3-hourly job.  The handlers run as one step each; a thread  *)
(* advances from one blocking call to the next (read_excel,                *)
(* setup_chrome_driver, search_product), interleaved with the handlers and *)
(* with the other threads.                                                 *)
(***************************************************************************)

\* How many perform_search threads are started in one behaviour.
MaxSearches == 3

\* How many rows coupang_rank.xlsx holds.
MaxRows == 2

Searches == 1..MaxSearches

\* The thread object a start takes: the first one not yet used.
FreshSearch == CHOOSE t \in Searches : rank_pc[t] = "none" /\ \A u \in 1..(t - 1) : rank_pc[u] # "none"

\* The threads inside perform_search (line 328 reached, not yet returned).
Executing == {t \in Searches : rank_pc[t] \in {"load", "setup", "loop", "row", "finally"}}

\* Lines 432-448: start_search sets the flag and starts a thread when the
\* flag is clear, and answers "already running" otherwise.
start_search ==
    /\ \E t \in Searches : rank_pc[t] = "none"
    /\ IF ~search_active
       THEN /\ search_active' = TRUE
            /\ rank_pc' = [rank_pc EXCEPT ![FreshSearch] = "spawned"]
            /\ rank_origin' = [rank_origin EXCEPT ![FreshSearch] = "start_search"]
            /\ last_start' = "success"
       ELSE /\ last_start' = "error"
            /\ UNCHANGED <<search_active, rank_pc, rank_origin>>
    /\ stop_pending' = {}
    /\ UNCHANGED rank_row
    /\ UNCHANGED <<subVars, projVars, renderVars, crawlVars, appVars, editVars, transVars, scrapeVars, pageVars, pipeVars, buildVars>>

\* Lines 450-459: stop_search clears the flag.
stop_search ==
    /\ search_active' = FALSE
    /\ stop_pending' = Executing
    /\ UNCHANGED <<rank_pc, rank_origin, rank_row, last_start>>
    /\ UNCHANGED <<subVars, projVars, renderVars, crawlVars, appVars, editVars, transVars, scrapeVars, pageVars, pipeVars, buildVars>>

\* Lines 312-318: the interval job calls perform_search in a thread of the
\* scheduler, whatever the flag says; APScheduler skips a run while the
\* previous run of the same job has not returned (max_instances = 1).
scheduler_job ==
    /\ \E t \in Searches : rank_pc[t] = "none"
    /\ \A t \in Searches : rank_origin[t] = "scheduler" => rank_pc[t] = "done"
    /\ rank_pc' = [rank_pc EXCEPT ![FreshSearch] = "spawned"]
    /\ rank_origin' = [rank_origin EXCEPT ![FreshSearch] = "scheduler"]
    /\ UNCHANGED <<search_active, rank_row, last_start, stop_pending>>
    /\ UNCHANGED <<subVars, projVars, renderVars, crawlVars, appVars, editVars, transVars, scrapeVars, pageVars, pipeVars, buildVars>>

\* Lines 326-331: `if not search_active: search_active = True`.
perform_search_begin(t) ==
    /\ rank_pc[t] = "spawned"
    /\ search_active' = TRUE
    /\ rank_pc' = [rank_pc EXCEPT ![t] = "load"]
    /\ UNCHANGED <<rank_origin, rank_row, last_start, stop_pending>>
    /\ UNCHANGED <<subVars, projVars, renderVars, crawlVars, appVars, editVars, transVars, scrapeVars, pageVars, pipeVars, buildVars>>

\* Lines 334-335: pd.read_excel returns, or raises into the handler of lines
\* 403-412, which clears the flag.
perform_search_read_excel(t, readable) ==
    /\ rank_pc[t] = "load"
    /\ IF readable
       THEN /\ rank_pc' = [rank_pc EXCEPT ![t] = "setup"]
            /\ UNCHANGED search_active
       ELSE /\ rank_pc' = [rank_pc EXCEPT ![t] = "done"]
            /\ search_active' = FALSE
    /\ UNCHANGED <<rank_origin, rank_row, last_start, stop_pending>>
    /\ UNCHANGED <<subVars, projVars, renderVars, crawlVars, appVars, editVars, transVars, scrapeVars, pageVars, pipeVars, buildVars>>

\* Lines 338-341: setup_chrome_driver returns a driver, or None and
\* perform_search returns from line 341 (only the outer finally runs).
perform_search_setup_driver(t, driver) ==
    /\ rank_pc[t] = "setup"
    /\ rank_pc' = [rank_pc EXCEPT ![t] = IF driver THEN "loop" ELSE "done"]
    /\ UNCHANGED <<search_active, rank_origin, rank_row, last_start, stop_pending>>
    /\ UNCHANGED <<subVars, projVars, renderVars, crawlVars, appVars, editVars, transVars, scrapeVars, pageVars, pipeVars, buildVars>>

\* Lines 345-362: the head of the row loop; `if not search_active: break`,
\* otherwise the next row is started (search_product is called).
perform_search_next_row(t) ==
    /\ rank_pc[t] = "loop"
    /\ IF ~search_active \/ rank_row[t] = MaxRows
       THEN /\ rank_pc' = [rank_pc EXCEPT ![t] = "finally"]
            /\ UNCHANGED rank_row
       ELSE /\ rank_pc' = [rank_pc EXCEPT ![t] = "row"]
            /\ rank_row' = [rank_row EXCEPT ![t] = @ + 1]
    /\ UNCHANGED <<search_active, rank_origin, last_start, stop_pending>>
    /\ UNCHANGED <<subVars, projVars, renderVars, crawlVars, appVars, editVars, transVars, scrapeVars, pageVars, pipeVars, buildVars>>

\* Lines 362-386: search_product returns and the row is saved, or saving
\* raises and control leaves the loop for the finally of line 390.
perform_search_row_done(t, raised) ==
    /\ rank_pc[t] = "row"
    /\ rank_pc' = [rank_pc EXCEPT ![t] = IF raised THEN "finally" ELSE "loop"]
    /\ UNCHANGED <<search_active, rank_origin, rank_row, last_start, stop_pending>>
    /\ UNCHANGED <<subVars, projVars, renderVars, crawlVars, appVars, editVars, transVars, scrapeVars, pageVars, pipeVars, buildVars>>

\* Lines 390-401 (and 403-405 when an exception is on its way): the driver is
\* quit and the flag is cleared.
perform_search_finally(t) ==
    /\ rank_pc[t] = "finally"
    /\ search_active' = FALSE
    /\ rank_pc' = [rank_pc EXCEPT ![t] = "done"]
    /\ UNCHANGED <<rank_origin, rank_row, last_start, stop_pending>>
    /\ UNCHANGED <<subVars, projVars, renderVars, crawlVars, appVars, editVars, transVars, scrapeVars, pageVars, pipeVars, buildVars>>

RankNext ==
    \/ start_search
    \/ stop_search
    \/ scheduler_job
    \/ \E t \in Searches :
        \/ perform_search_begin(t)
        \/ \E readable \in BOOLEAN : perform_search_read_excel(t, readable)
        \/ \E driver \in BOOLEAN : perform_search_setup_driver(t, driver)
        \/ perform_search_next_row(t)
        \/ \E raised \in BOOLEAN : perform_search_row_done(t, raised)
        \/ perform_search_finally(t)

(***************************************************************************)
(*       web_app/app.py: POST /generate and POST /projects/{}/render       *)
(*                                                                         *)
(* Both handlers run their job in a thread of the server's thread pool     *)
(* (generate through run_in_threadpool, api_render_project as a plain def  *)
(* route), so a job is under way from the moment the request is accepted   *)
(* until it is answered.  Neither handler reads or writes any shared flag. *)
(***************************************************************************)

\* How many job requests arrive.
MaxJobs == 3

Jobs == 1..MaxJobs

\* Lines 1092-1154: generate builds the options and hands generate_short to
\* the thread pool.
generate_accept(j) ==
    /\ job_pc[j] = "not_sent"
    /\ job_kind' = [job_kind EXCEPT ![j] = "generate"]
    /\ job_pc' = [job_pc EXCEPT ![j] = "running"]
    /\ UNCHANGED job_answer
    /\ UNCHANGED <<subVars, projVars, renderVars, crawlVars, rankVars, editVars, transVars, scrapeVars, pageVars, pipeVars, buildVars>>

\* Lines 1154-1181: generate_short returns or raises; either way the page is
\* rendered, with the result or with the error text.
generate_finish(j, raised) ==
    /\ job_pc[j] = "running"
    /\ job_kind[j] = "generate"
    /\ job_pc' = [job_pc EXCEPT ![j] = "answered"]
    /\ job_answer' = [job_answer EXCEPT ![j] = IF raised THEN "200 error page" ELSE "200 result page"]
    /\ UNCHANGED job_kind
    /\ UNCHANGED <<subVars, projVars, renderVars, crawlVars, rankVars, editVars, transVars, scrapeVars, pageVars, pipeVars, buildVars>>

\* Lines 277-281: api_render_project calls render_project.
api_render_project_accept(j) ==
    /\ job_pc[j] = "not_sent"
    /\ job_kind' = [job_kind EXCEPT ![j] = "render"]
    /\ job_pc' = [job_pc EXCEPT ![j] = "running"]
    /\ UNCHANGED job_answer
    /\ UNCHANGED <<subVars, projVars, renderVars, crawlVars, rankVars, editVars, transVars, scrapeVars, pageVars, pipeVars, buildVars>>

\* Lines 281-285: render_project returns the metadata, or raises
\* FileNotFoundError (404), RuntimeError (400) or anything else (500).
api_render_project_finish(j, outcome) ==
    /\ job_pc[j] = "running"
    /\ job_kind[j] = "render"
    /\ job_pc' = [job_pc EXCEPT ![j] = "answered"]
    /\ job_answer' = [job_answer EXCEPT ![j] =
            CASE outcome = "returned" -> "200"
              [] outcome = "FileNotFoundError" -> "404"
              [] outcome = "RuntimeError" -> "400"
              [] OTHER -> "500"]
    /\ UNCHANGED job_kind
    /\ UNCHANGED <<subVars, projVars, renderVars, crawlVars, rankVars, editVars, transVars, scrapeVars, pageVars, pipeVars, buildVars>>

AppNext ==
    \E j \in Jobs :
        \/ generate_accept(j)
        \/ \E raised \in BOOLEAN : generate_finish(j, raised)
        \/ api_render_project_accept(j)
        \/ \E outcome \in {"returned", "FileNotFoundError", "RuntimeError", "Exception"} :
                api_render_project_finish(j, outcome)

(***************************************************************************)
(*      Concurrent POST /api/projects/{base_name}/subtitles requests       *)
(*                                                                         *)
(* api_add_subtitle is a def route: the server runs each request in a      *)
(* thread of its pool.  A request first loads the project (load_project    *)
(* reads the metadata file), edits its own copy, and then saves it         *)
(* (save_project writes the backup, the metadata file and the SRT file);   *)
(* other requests run between the two.                                     *)
(***************************************************************************)

\* How many add_subtitle requests are sent to the one project.
MaxEdits == 3

Edits == 1..MaxEdits

\* uuid4() of request e: an id no other line has.
EditId(e) == 100 + e

\* services.py lines 120-135 and app.py lines 208-215: the project is loaded
\* and the new line is appended to the request's copy, which is touched.
add_subtitle_load(e, payload) ==
    /\ edit_pc[e] = "not_sent"
    /\ IF LoadError # "none"
       THEN /\ edit_pc' = [edit_pc EXCEPT ![e] = "answered"]
            /\ edit_answer' = [edit_answer EXCEPT ![e] =
                   IF LoadError = "FileNotFoundError" THEN "404" ELSE "400"]
            /\ UNCHANGED <<edit_metadata, edit_base>>
       ELSE LET metadata == LoadProject
                start == RoundTime(payload.start)
                end == RoundTime(payload.end)
                new_line == [id |-> EditId(e), start |-> start, end |-> end,
                             text |-> payload.text,
                             created_at |-> clock, updated_at |-> clock]
            IN IF end <= 0
               THEN /\ edit_pc' = [edit_pc EXCEPT ![e] = "answered"]
                    /\ edit_answer' = [edit_answer EXCEPT ![e] = "400"]
                    /\ UNCHANGED <<edit_metadata, edit_base>>
               ELSE /\ edit_pc' = [edit_pc EXCEPT ![e] = "loaded"]
                    /\ edit_metadata' = [edit_metadata EXCEPT ![e] =
                           Touch([metadata EXCEPT
                                     !.captions = SortByStart(Append(metadata.captions, new_line))],
                                 clock)]
                    /\ edit_base' = [edit_base EXCEPT ![e] = metadata.version]
                    /\ UNCHANGED edit_answer
    /\ UNCHANGED projVars
    /\ UNCHANGED <<subVars, renderVars, crawlVars, rankVars, appVars, transVars, scrapeVars, pageVars, pipeVars, buildVars>>

\* A variant of add_subtitle_save that refuses to overwrite a file whose
\* version is no longer the one the request loaded.
add_subtitle_save_if_current(e) ==
    /\ edit_pc[e] = "loaded"
    /\ edit_pc' = [edit_pc EXCEPT ![e] = "answered"]
    /\ IF meta_file # NoFile /\ meta_file.version = edit_base[e]
       THEN /\ SaveProject(edit_metadata[e], "add_subtitle")
            /\ last_subtitle_id' = NoId
            /\ edit_answer' = [edit_answer EXCEPT ![e] = "200"]
       ELSE /\ edit_answer' = [edit_answer EXCEPT ![e] = "409"]
            /\ UNCHANGED projVars
    /\ UNCHANGED <<edit_metadata, edit_base>>
    /\ UNCHANGED <<subVars, renderVars, crawlVars, rankVars, appVars, transVars, scrapeVars, pageVars, pipeVars, buildVars>>

\* services.py line 136 and repository.py lines 113-149: the request's copy
\* is saved over whatever the file holds now, and the request answers 200.
add_subtitle_save(e) ==
    /\ edit_pc[e] = "loaded"
    /\ SaveProject(edit_metadata[e], "add_subtitle")
    /\ last_subtitle_id' = NoId
    /\ edit_pc' = [edit_pc EXCEPT ![e] = "answered"]
    /\ edit_answer' = [edit_answer EXCEPT ![e] = "200"]
    /\ UNCHANGED <<edit_metadata, edit_base>>
    /\ UNCHANGED <<subVars, renderVars, crawlVars, rankVars, appVars, transVars, scrapeVars, pageVars, pipeVars, buildVars>>

EditsNext ==
    \E e \in Edits :
        \/ \E payload \in SubtitleCreates : add_subtitle_load(e, payload)
        \/ add_subtitle_save(e)

(***************************************************************************)
(*   ai_shorts_maker/translator.py and web_app/app.py: editing a segment   *)
(*   of a translator project                                               *)
(*                                                                         *)
(* Times are hundredths of a second.  A handler and the translator call it *)
(* makes are one step: the request, the file it leaves and the response.   *)
(***************************************************************************)

\* How many times a translator project is saved in one behaviour.
MaxSaves == 2

\* The project file as create_project left it: two segments, the first one
\* translated.
TranslatorSegments ==
    <<[id |-> "seg1", start |-> 0, end |-> 100, source_text |-> Some("ko1"),
       translated_text |-> Some("ja1"), reverse_translated_text |-> None,
       commentary |-> None],
      [id |-> "seg2", start |-> 100, end |-> 250, source_text |-> Some("ko2"),
       translated_text |-> None, reverse_translated_text |-> None,
       commentary |-> None]>>

CreatedTranslatorProject == [segments |-> TranslatorSegments, updated_at |-> 0]

\* The JSON bodies tried for PATCH .../segments/time.
TimePayloads ==
    [segment_id : {None, Some("seg1"), Some("seg9")},
     start_time : {None, Some(0 - 50), Some(0), Some(150)},
     end_time   : {None, Some(0), Some(100), Some(200)}]

\* The JSON bodies tried for PATCH .../segments.
TextPayloads ==
    [segment_id : {None, Some("seg2"), Some("seg9")},
     text_type  : {None, Some("translated"), Some("commentary"), Some("bogus")},
     text_value : {"", "new"}]

\* Python's truth value of an Optional[str].
Truthy(text) == text # None /\ text # Some("")

\* translator.py lines 1122-1129 and 1155-1162: the index of the segment with
\* the id, 0 when there is none.
FindSegment(project, segment_id) ==
    LET found == {i \in 1..Len(project.segments) : project.segments[i].id = segment_id}
    IN IF found = {} THEN 0 ELSE CHOOSE i \in found : \A j \in found : i <= j

\* translator.py lines 299-345: the version file _save_translation_version
\* adds: the next number and the segments that have a translation.
NextTranslationVersion(project, versions) ==
    [version |-> Len(versions) + 1,
     created_at |-> project.updated_at,
     segments |-> SelectSeq(project.segments, LAMBDA seg : Truthy(seg.translated_text))]

\* translator.py lines 276-296: save_project.
SaveTranslatorProject(project) ==
    /\ tr_clock <= MaxSaves
    /\ LET stamped == [project EXCEPT !.updated_at = tr_clock]
       IN /\ tr_file' = stamped
          /\ tr_versions' = Append(tr_versions, NextTranslationVersion(stamped, tr_versions))
    /\ tr_clock' = tr_clock + 1

\* app.py lines 487-489 and 514-516: `except Exception` receives whatever the
\* try block raised, the handler's own HTTPException(400) included, and
\* raises HTTPException(500) in its place.
AnswerOfHandler(raised) ==
    IF raised = "none" THEN [status |-> 200, raised |-> raised]
    ELSE [status |-> 500, raised |-> raised]

\* app.py lines 492-516 with translator.py lines 1149-1175.
api_update_segment_time(payload) ==
    /\ tr_request' = [route |-> "segments/time", payload |-> payload]
    /\ IF payload.segment_id = None \/ payload.start_time = None \/ payload.end_time = None
       THEN /\ tr_response' = AnswerOfHandler("HTTPException(400)")
            /\ UNCHANGED <<tr_file, tr_versions, tr_clock>>
       ELSE LET segment_id == payload.segment_id[1]
                start_time == payload.start_time[1]
                end_time == payload.end_time[1]
            IN IF start_time >= end_time \/ start_time < 0 \/ end_time < 0
               THEN /\ tr_response' = AnswerOfHandler("HTTPException(400)")
                    /\ UNCHANGED <<tr_file, tr_versions, tr_clock>>
               ELSE IF tr_file = NoFile
               THEN /\ tr_response' = AnswerOfHandler("FileNotFoundError")
                    /\ UNCHANGED <<tr_file, tr_versions, tr_clock>>
               ELSE IF FindSegment(tr_file, segment_id) = 0
               THEN /\ tr_response' = AnswerOfHandler("ValueError")
                    /\ UNCHANGED <<tr_file, tr_versions, tr_clock>>
               ELSE \* lines 1165-1170 save the new times; line 1174 then reads
                    \* text_type, a name update_segment_time does not have
                    /\ SaveTranslatorProject(
                           [tr_file EXCEPT
                               !.segments[FindSegment(tr_file, segment_id)].start = start_time,
                               !.segments[FindSegment(tr_file, segment_id)].end = end_time])
                    /\ tr_response' = AnswerOfHandler("NameError")
    /\ UNCHANGED <<subVars, projVars, renderVars, crawlVars, rankVars, appVars, editVars, scrapeVars, pageVars, pipeVars, buildVars>>

\* The field of a segment that update_segment_text writes for a text_type.
TextField(text_type) ==
    CASE text_type = "source" -> "source_text"
      [] text_type = "translated" -> "translated_text"
      [] text_type = "reverse_translated" -> "reverse_translated_text"
      [] text_type = "commentary" -> "commentary"
      [] OTHER -> "none"

\* app.py lines 471-489 with translator.py lines 1116-1146.
api_update_segment_text(payload) ==
    /\ tr_request' = [route |-> "segments", payload |-> payload]
    /\ IF payload.segment_id = None \/ payload.text_type = None
       THEN /\ tr_response' = AnswerOfHandler("HTTPException(400)")
            /\ UNCHANGED <<tr_file, tr_versions, tr_clock>>
       ELSE LET segment_id == payload.segment_id[1]
                field == TextField(payload.text_type[1])
            IN IF tr_file = NoFile
               THEN /\ tr_response' = AnswerOfHandler("FileNotFoundError")
                    /\ UNCHANGED <<tr_file, tr_versions, tr_clock>>
               ELSE IF FindSegment(tr_file, segment_id) = 0 \/ field = "none"
               THEN /\ tr_response' = AnswerOfHandler("ValueError")
                    /\ UNCHANGED <<tr_file, tr_versions, tr_clock>>
               ELSE /\ SaveTranslatorProject(
                           [tr_file EXCEPT
                               !.segments[FindSegment(tr_file, segment_id)][field] =
                                   Some(payload.text_value)])
                    /\ tr_response' = AnswerOfHandler("none")
    /\ UNCHANGED <<subVars, projVars, renderVars, crawlVars, rankVars, appVars, editVars, scrapeVars, pageVars, pipeVars, buildVars>>

TranslatorNext ==
    \/ \E payload \in TimePayloads : api_update_segment_time(payload)
    \/ \E payload \in TextPayloads : api_update_segment_text(payload)

(***************************************************************************)
(*   ai_shorts_maker/translator.py: the steps of the translator pipeline   *)
(*                                                                         *)
(* One translator project.  The routes of app.py run the functions in the  *)
(* thread pool (run_in_threadpool), so calls overlap: a call is a sequence *)
(* of steps, each of them ending at a read or a write of the project file  *)
(* or at the return of an external call (OpenAI, MoviePy).                 *)
(***************************************************************************)

\* How many calls are made in one behaviour.
MaxPipelineCalls == 3

\* The threads of the pool that take the calls.
Workers == {"w1", "w2"}

\* Lines 57-66: the Literal of TranslatorProject.status.
DeclaredStatuses ==
    {"draft", "segmenting", "translating", "voice_ready", "voice_complete",
     "rendering", "rendered", "failed"}

\* Lines 73-84: TranslatorProject.completed_steps.
completed_steps(status) ==
    CASE status \in {"draft", "segmenting", "failed"} -> 1
      [] status = "translating" -> 2
      [] status = "voice_ready" -> 3
      [] status \in {"voice_complete", "rendering"} -> 4
      [] status = "rendered" -> 5
      [] OTHER -> 1

\* A segment as _build_segments (no text) or _parse_srt_segments (text)
\* makes it.
PipelineSegment(id, clip_index, source_text) ==
    [id |-> id, clip_index |-> clip_index, source_text |-> source_text,
     translated_text |-> None, commentary |-> None]

\* The segment lists create_project can leave: cut from the duration, or
\* parsed from an SRT file whose second block holds only the ">> " mark.
CreatedSegmentLists ==
    {<<PipelineSegment("seg1", 0, None), PipelineSegment("seg2", 1, None)>>,
     <<PipelineSegment("seg1", 0, Some("src")), PipelineSegment("seg2", 1, Some(">> "))>>}

\* Lines 245-273: the project create_project saves (status has its default,
\* "segmenting").
CreatedPipelineProject(segments, mode) ==
    [status |-> "segmenting", segments |-> segments, voice_synthesis_mode |-> mode,
     error |-> None, voice_path |-> FALSE, rendered_video_path |-> FALSE]

\* What project.source_subtitle names when a step reads it: no path at all,
\* a file that is gone, a file without captions, a file whose captions lie
\* in the first segment, a file whose captions lie in no segment.
SubtitleStates == {"no_path", "missing", "no_captions", "captions_seg1", "captions_nowhere"}

\* A thread of the pool that runs no call.
IdleCall == [op |-> "none", pc |-> "idle"]

\* The return value of the last call that returned.
NoReturn == [op |-> "none", outcome |-> "none"]

\* Lines 1039, 787, 1274, 1332: the statuses in which a step does its work.
StepAllowedAlways(op, status) == TRUE

StepAllowed(op, status) ==
    CASE op = "translate_project_segments" -> status \in {"segmenting", "draft"}
      [] op = "generate_ai_commentary_for_project" -> status \in {"segmenting", "draft"}
      [] op = "synthesize_voice_for_project" -> status = "voice_ready"
      [] op = "render_translated_project" -> status = "voice_complete"
      [] OTHER -> TRUE

\* The first step of an operation that passes its guard.
FirstStep(op) ==
    CASE op = "translate_project_segments" -> "populate"
      [] op = "generate_ai_commentary_for_project" -> "populate"
      [] op = "synthesize_voice_for_project" -> "script"
      [] op = "render_translated_project" -> "external"
      [] OTHER -> "save"

\* Lines 1045-1046, 1085-1086 and their like: the project marked as failed.
MarkedFailedNot(project, error) == project

MarkedFailed(project, error) ==
    [project EXCEPT !.status = "failed", !.error = Some(error)]

\* Lines 276-296: save_project writes the project file and adds a version
\* file.
SavePipelineProject(project) ==
    /\ tp_file' = project
    /\ tp_versions' = tp_versions + 1
    /\ tp_statuses' = Append(tp_statuses, project.status)

\* A call returns the project (or raises).
ReturnFromCall(w, outcome, project) ==
    /\ tp_call' = [tp_call EXCEPT ![w] = IdleCall]
    /\ tp_last' = [op |-> tp_call[w].op, outcome |-> outcome, project |-> project]

\* Lines 404-416 and the status guard that follows load_project in every
\* pipeline step: a stored status outside the Literal fails validation
\* (ValueError), a status outside the guard returns the project as loaded.
BeginCall(w, op) ==
    /\ tp_call[w] = IdleCall
    /\ tp_started < MaxPipelineCalls
    /\ tp_started' = tp_started + 1
    /\ IF tp_file.status \notin DeclaredStatuses
       THEN /\ tp_call' = tp_call
            /\ tp_last' = [op |-> op, outcome |-> "ValueError"]
       ELSE IF ~StepAllowed(op, tp_file.status)
       THEN /\ tp_call' = tp_call
            /\ tp_last' = [op |-> op, outcome |-> "skipped", project |-> tp_file]
       ELSE /\ tp_call' = [tp_call EXCEPT ![w] = [op |-> op, pc |-> FirstStep(op), project |-> tp_file]]
            /\ UNCHANGED tp_last
    /\ UNCHANGED <<tp_file, tp_versions, tp_statuses, tp_subtitle>>
    /\ UNCHANGED <<subVars, projVars, renderVars, crawlVars, rankVars, appVars, editVars, transVars, scrapeVars, pageVars, buildVars>>

\* Lines 1035-1041.
translate_project_segments_load(w) == BeginCall(w, "translate_project_segments")

\* Lines 783-789.
generate_ai_commentary_for_project_load(w) == BeginCall(w, "generate_ai_commentary_for_project")

\* Lines 1270-1276.
synthesize_voice_for_project_load(w) == BeginCall(w, "synthesize_voice_for_project")

\* Lines 1328-1334.
render_translated_project_load(w) == BeginCall(w, "render_translated_project")

\* Lines 771-777: every segment gets the captions that lie inside it,
\* joined, "" when there are none.
PopulatedSegments(segments) ==
    [i \in 1..Len(segments) |->
        [segments[i] EXCEPT !.source_text =
            IF tp_subtitle = "captions_seg1" /\ i = 1 THEN Some("cap") ELSE Some("")]]

\* Lines 753-780: populate_segments_from_subtitles.  A subtitle file that
\* is gone is saved as a failure, and the project is handed back to the
\* caller all the same.
populate_segments_from_subtitles(w) ==
    /\ tp_call[w].pc = "populate"
    /\ LET project == tp_call[w].project
       IN IF tp_subtitle = "missing"
          THEN /\ SavePipelineProject(MarkedFailed(project, "Subtitle file not found"))
               /\ tp_call' = [tp_call EXCEPT ![w].pc = "source_text",
                                             ![w].project = MarkedFailed(project, "Subtitle file not found")]
          ELSE /\ tp_call' = [tp_call EXCEPT ![w].pc = "source_text",
                                             ![w].project.segments =
                                                 IF tp_subtitle \in {"captions_seg1", "captions_nowhere"}
                                                 THEN PopulatedSegments(project.segments)
                                                 ELSE project.segments]
               /\ UNCHANGED <<tp_file, tp_versions, tp_statuses>>
    /\ UNCHANGED <<tp_last, tp_started, tp_subtitle>>
    /\ UNCHANGED <<subVars, projVars, renderVars, crawlVars, rankVars, appVars, editVars, transVars, scrapeVars, pageVars, buildVars>>

\* Lines 1044 and 792: any(seg.source_text for seg in project.segments).
AnySourceText(project) ==
    \E i \in 1..Len(project.segments) : Truthy(project.segments[i].source_text)

\* Lines 1044-1050.
translate_project_segments_mark(w) ==
    /\ tp_call[w].op = "translate_project_segments"
    /\ tp_call[w].pc = "source_text"
    /\ LET project == tp_call[w].project
       IN IF ~AnySourceText(project)
          THEN /\ SavePipelineProject(MarkedFailed(project, "no source text"))
               /\ ReturnFromCall(w, "failed", MarkedFailed(project, "no source text"))
          ELSE /\ SavePipelineProject([project EXCEPT !.status = "translating"])
               /\ tp_call' = [tp_call EXCEPT ![w].pc = "external",
                                             ![w].project.status = "translating"]
               /\ UNCHANGED tp_last
    /\ UNCHANGED <<tp_started, tp_subtitle>>
    /\ UNCHANGED <<subVars, projVars, renderVars, crawlVars, rankVars, appVars, editVars, transVars, scrapeVars, pageVars, buildVars>>

\* Lines 1058-1064: the segments that are sent to the translation: those
\* whose source text is more than the ">> " mark.
Translatable(segment) ==
    Truthy(segment.source_text) /\ segment.source_text # Some(">> ")

\* Lines 1057-1073: the segments after the loop has passed the first
\* `upto` of them.
TranslatedSegments(segments, upto) ==
    [i \in 1..Len(segments) |->
        IF i <= upto /\ Translatable(segments[i])
        THEN [segments[i] EXCEPT !.translated_text = Some("tr")]
        ELSE segments[i]]

\* Lines 1052-1076 and 1083-1087: the translation calls.  raised_at is the
\* segment whose call raises, 0 when none does.
translate_project_segments_translate(w, raised_at) ==
    /\ tp_call[w].op = "translate_project_segments"
    /\ tp_call[w].pc = "external"
    /\ LET project == tp_call[w].project
       IN /\ raised_at \in 0..Len(project.segments)
          /\ raised_at > 0 => Translatable(project.segments[raised_at])
          /\ IF raised_at = 0
             THEN LET done == [project EXCEPT
                                  !.segments = TranslatedSegments(project.segments, Len(project.segments)),
                                  !.status = "voice_ready"]
                  IN /\ SavePipelineProject(done)
                     /\ tp_call' = [tp_call EXCEPT ![w].pc = "texts", ![w].project = done]
                     /\ UNCHANGED tp_last
             ELSE LET partly == [project EXCEPT
                                    !.segments = TranslatedSegments(project.segments, raised_at - 1)]
                  IN /\ SavePipelineProject(MarkedFailed(partly, "translate_text"))
                     /\ ReturnFromCall(w, "failed", MarkedFailed(partly, "translate_text"))
    /\ UNCHANGED <<tp_started, tp_subtitle>>
    /\ UNCHANGED <<subVars, projVars, renderVars, crawlVars, rankVars, appVars, editVars, transVars, scrapeVars, pageVars, buildVars>>

\* Lines 1078-1087: _save_translation_texts writes the TXT files inside the
\* same try block.
translate_project_segments_texts(w, raised) ==
    /\ tp_call[w].op = "translate_project_segments"
    /\ tp_call[w].pc = "texts"
    /\ LET project == tp_call[w].project
       IN IF raised
          THEN /\ SavePipelineProject(MarkedFailed(project, "_save_translation_texts"))
               /\ ReturnFromCall(w, "failed", MarkedFailed(project, "_save_translation_texts"))
          ELSE /\ ReturnFromCall(w, "done", project)
               /\ UNCHANGED <<tp_file, tp_versions, tp_statuses>>
    /\ UNCHANGED <<tp_started, tp_subtitle>>
    /\ UNCHANGED <<subVars, projVars, renderVars, crawlVars, rankVars, appVars, editVars, transVars, scrapeVars, pageVars, buildVars>>

\* Lines 792-795.
generate_ai_commentary_for_project_mark(w) ==
    /\ tp_call[w].op = "generate_ai_commentary_for_project"
    /\ tp_call[w].pc = "source_text"
    /\ LET project == tp_call[w].project
       IN IF ~AnySourceText(project)
          THEN /\ SavePipelineProject(MarkedFailed(project, "no source text"))
               /\ ReturnFromCall(w, "failed", MarkedFailed(project, "no source text"))
          ELSE /\ tp_call' = [tp_call EXCEPT ![w].pc = "external"]
               /\ UNCHANGED <<tp_file, tp_versions, tp_statuses, tp_last>>
    /\ UNCHANGED <<tp_started, tp_subtitle>>
    /\ UNCHANGED <<subVars, projVars, renderVars, crawlVars, rankVars, appVars, editVars, transVars, scrapeVars, pageVars, buildVars>>

\* Lines 802-830: a segment with source text gets its commentary.
CommentedSegments(segments) ==
    [i \in 1..Len(segments) |->
        IF Truthy(segments[i].source_text)
        THEN [segments[i] EXCEPT !.commentary = Some("cm")]
        ELSE segments[i]]

\* Lines 797-842: the client is made and the commentaries are written; the
\* status is set to "segmenting".
generate_ai_commentary_for_project_generate(w, raised) ==
    /\ tp_call[w].op = "generate_ai_commentary_for_project"
    /\ tp_call[w].pc = "external"
    /\ LET project == tp_call[w].project
       IN IF raised
          THEN /\ SavePipelineProject(MarkedFailed(project, "OpenAIShortsClient"))
               /\ ReturnFromCall(w, "failed", MarkedFailed(project, "OpenAIShortsClient"))
          ELSE LET done == [project EXCEPT !.segments = CommentedSegments(project.segments),
                                           !.status = "segmenting"]
               IN /\ SavePipelineProject(done)
                  /\ ReturnFromCall(w, "done", done)
    /\ UNCHANGED <<tp_started, tp_subtitle>>
    /\ UNCHANGED <<subVars, projVars, renderVars, crawlVars, rankVars, appVars, editVars, transVars, scrapeVars, pageVars, buildVars>>

\* Lines 1279-1291: whether the script of the voice is empty.
ScriptIsEmpty(project) ==
    \A i \in 1..Len(project.segments) :
        /\ project.voice_synthesis_mode \in {"subtitle", "both"}
               => ~Truthy(project.segments[i].translated_text)
        /\ project.voice_synthesis_mode \in {"commentary", "both"}
               => ~Truthy(project.segments[i].commentary)

\* Lines 1278-1299.
synthesize_voice_for_project_script(w) ==
    /\ tp_call[w].op = "synthesize_voice_for_project"
    /\ tp_call[w].pc = "script"
    /\ LET project == tp_call[w].project
       IN IF ScriptIsEmpty(project)
          THEN /\ SavePipelineProject(MarkedFailed(project, "no script text"))
               /\ ReturnFromCall(w, "failed", MarkedFailed(project, "no script text"))
          ELSE /\ SavePipelineProject([project EXCEPT !.status = "rendering"])
               /\ tp_call' = [tp_call EXCEPT ![w].pc = "external",
                                             ![w].project.status = "rendering"]
               /\ UNCHANGED tp_last
    /\ UNCHANGED <<tp_started, tp_subtitle>>
    /\ UNCHANGED <<subVars, projVars, renderVars, crawlVars, rankVars, appVars, editVars, transVars, scrapeVars, pageVars, buildVars>>

\* Lines 1301-1325: the TTS call.
synthesize_voice_for_project_synthesize(w, raised) ==
    /\ tp_call[w].op = "synthesize_voice_for_project"
    /\ tp_call[w].pc = "external"
    /\ LET project == tp_call[w].project
       IN IF raised
          THEN /\ SavePipelineProject(MarkedFailed(project, "synthesize_voice"))
               /\ ReturnFromCall(w, "failed", MarkedFailed(project, "synthesize_voice"))
          ELSE LET done == [project EXCEPT !.voice_path = TRUE, !.status = "voice_complete"]
               IN /\ SavePipelineProject(done)
                  /\ ReturnFromCall(w, "done", done)
    /\ UNCHANGED <<tp_started, tp_subtitle>>
    /\ UNCHANGED <<subVars, projVars, renderVars, crawlVars, rankVars, appVars, editVars, transVars, scrapeVars, pageVars, buildVars>>

\* Lines 1336-1386: MoviePy loads the video, attaches the voice, burns the
\* subtitles and writes the file; a voice path that is not there raises as
\* the calls do.
render_translated_project_render(w, raised) ==
    /\ tp_call[w].op = "render_translated_project"
    /\ tp_call[w].pc = "external"
    /\ LET project == tp_call[w].project
       IN IF raised \/ ~project.voice_path
          THEN /\ SavePipelineProject(MarkedFailed(project, "render"))
               /\ ReturnFromCall(w, "failed", MarkedFailed(project, "render"))
          ELSE LET done == [project EXCEPT !.rendered_video_path = TRUE, !.status = "rendered"]
               IN /\ SavePipelineProject(done)
                  /\ ReturnFromCall(w, "done", done)
    /\ UNCHANGED <<tp_started, tp_subtitle>>
    /\ UNCHANGED <<subVars, projVars, renderVars, crawlVars, rankVars, appVars, editVars, transVars, scrapeVars, pageVars, buildVars>>

\* The pipeline operations on a project that create_project has made.
PipelineNext ==
    \/ \E w \in Workers : translate_project_segments_load(w)
    \/ \E w \in Workers : generate_ai_commentary_for_project_load(w)
    \/ \E w \in Workers : synthesize_voice_for_project_load(w)
    \/ \E w \in Workers : render_translated_project_load(w)
    \/ \E w \in Workers : populate_segments_from_subtitles(w)
    \/ \E w \in Workers : translate_project_segments_mark(w)
    \/ \E w \in Workers, raised_at \in 0..2 : translate_project_segments_translate(w, raised_at)
    \/ \E w \in Workers, raised \in BOOLEAN : translate_project_segments_texts(w, raised)
    \/ \E w \in Workers : generate_ai_commentary_for_project_mark(w)
    \/ \E w \in Workers, raised \in BOOLEAN : generate_ai_commentary_for_project_generate(w, raised)
    \/ \E w \in Workers : synthesize_voice_for_project_script(w)
    \/ \E w \in Workers, raised \in BOOLEAN : synthesize_voice_for_project_synthesize(w, raised)
    \/ \E w \in Workers, raised \in BOOLEAN : render_translated_project_render(w, raised)

\* Lines 1208-1212.
reset_project_to_translated_load(w) == BeginCall(w, "reset_project_to_translated")

\* Lines 1214-1221: the status is assigned "translated" (a pydantic model does not
\* validate an assignment unless configured to) and the project is saved.
reset_project_to_translated_save(w) ==
    /\ tp_call[w].op = "reset_project_to_translated"
    /\ tp_call[w].pc = "save"
    /\ LET done == [tp_call[w].project EXCEPT !.status = "translated"]
       IN /\ SavePipelineProject(done)
          /\ ReturnFromCall(w, "done", done)
    /\ UNCHANGED <<tp_started, tp_subtitle>>
    /\ UNCHANGED <<subVars, projVars, renderVars, crawlVars, rankVars, appVars, editVars, transVars, scrapeVars, pageVars, buildVars>>

\* The pipeline operations and reset_project_to_translated.
TranslatorOpsNext ==
    \/ PipelineNext
    \/ \E w \in Workers : reset_project_to_translated_load(w)
    \/ \E w \in Workers : reset_project_to_translated_save(w)

\* The longest segment_orders list that is tried.
MaxOrders == 2

\* How many calls of reorder_project_segments are made in one behaviour.
MaxReorders == 2

\* The segment_orders lists that are tried: the ids of the two segments and
\* an id no segment has, the positions 0 and 1.
RECURSIVE OrderLists(_)
OrderLists(n) ==
    IF n = 0 THEN {<<>>}
    ELSE OrderLists(n - 1) \cup
         {Append(orders, order) :
             orders \in {o \in OrderLists(n - 1) : Len(o) = n - 1},
             order \in [segment_id : {"seg1", "seg2", "seg9"}, new_index : {0, 1}]}

\* Line 1189: sorted(segment_orders, key=lambda x: x["new_index"]), a stable
\* sort.
RECURSIVE InsertByNewIndex(_, _)
InsertByNewIndex(sorted, order) ==
    IF sorted = <<>> THEN <<order>>
    ELSE IF Head(sorted).new_index <= order.new_index
    THEN <<Head(sorted)>> \o InsertByNewIndex(Tail(sorted), order)
    ELSE <<order>> \o sorted

RECURSIVE SortByNewIndex(_)
SortByNewIndex(orders) ==
    IF orders = <<>> THEN <<>>
    ELSE InsertByNewIndex(SortByNewIndex(SubSeq(orders, 1, Len(orders) - 1)), orders[Len(orders)])

\* Line 1192: next((seg for seg in project.segments if seg.id == segment_id),
\* None), as an index, 0 for None.
SegmentWithId(segments, segment_id) ==
    LET found == {i \in 1..Len(segments) : segments[i].id = segment_id}
    IN IF found = {} THEN 0 ELSE CHOOSE i \in found : \A j \in found : i <= j

\* Line 1195: the clip_index a segment has after the loop: the new_index of
\* the last order that names it (the list holds the segment objects, so an
\* assignment shows in every place of the segment).
LastNewIndex(sorted, segment_id) ==
    LET naming == {k \in 1..Len(sorted) : sorted[k].segment_id = segment_id}
    IN sorted[CHOOSE k \in naming : \A j \in naming : j <= k].new_index

\* Lines 1185-1199: the list that replaces project.segments.
ReorderedSegments(segments, segment_orders) ==
    LET sorted == SortByNewIndex(segment_orders)
        found == SelectSeq(sorted, LAMBDA order : SegmentWithId(segments, order.segment_id) # 0)
    IN [k \in 1..Len(found) |->
           [segments[SegmentWithId(segments, found[k].segment_id)]
               EXCEPT !.clip_index = LastNewIndex(sorted, found[k].segment_id)]]

\* Lines 1178-1182.
reorder_project_segments_load(w, segment_orders) ==
    /\ tp_call[w] = IdleCall
    /\ tp_started < MaxReorders
    /\ tp_started' = tp_started + 1
    /\ IF tp_file.status \notin DeclaredStatuses
       THEN /\ tp_call' = tp_call
            /\ tp_last' = [op |-> "reorder_project_segments", outcome |-> "ValueError"]
       ELSE /\ tp_call' = [tp_call EXCEPT ![w] =
                               [op |-> "reorder_project_segments", pc |-> "save",
                                project |-> tp_file, segment_orders |-> segment_orders]]
            /\ UNCHANGED tp_last
    /\ UNCHANGED <<tp_file, tp_versions, tp_statuses, tp_subtitle>>
    /\ UNCHANGED <<subVars, projVars, renderVars, crawlVars, rankVars, appVars, editVars, transVars, scrapeVars, pageVars, buildVars>>

\* Lines 1184-1205.
reorder_project_segments_save(w) ==
    /\ tp_call[w].op = "reorder_project_segments"
    /\ tp_call[w].pc = "save"
    /\ LET done == [tp_call[w].project EXCEPT
                       !.segments = ReorderedSegments(tp_call[w].project.segments,
                                                      tp_call[w].segment_orders)]
       IN /\ SavePipelineProject(done)
          /\ tp_call' = [tp_call EXCEPT ![w] = IdleCall]
          /\ tp_last' = [op |-> "reorder_project_segments", outcome |-> "done", project |-> done,
                         loaded |-> tp_call[w].project,
                         segment_orders |-> tp_call[w].segment_orders]
    /\ UNCHANGED <<tp_started, tp_subtitle>>
    /\ UNCHANGED <<subVars, projVars, renderVars, crawlVars, rankVars, appVars, editVars, transVars, scrapeVars, pageVars, buildVars>>

\* Calls of reorder_project_segments.
ReorderNext ==
    \/ \E w \in Workers, segment_orders \in OrderLists(MaxOrders) :
           reorder_project_segments_load(w, segment_orders)
    \/ \E w \in Workers : reorder_project_segments_save(w)

(***************************************************************************)
(*   ai_shorts_maker/translator.py: _build_segments                        *)
(*                                                                         *)
(* Times are fifths of a millisecond (0.0002 s), so that round(x, 3) never *)
(* meets a tie; sums and comparisons are exact.  One step is one pass of   *)
(* `while start < duration`.                                               *)
(***************************************************************************)

\* The longest duration that is tried, in fifths of a millisecond.
MaxBuildDuration == 22

\* The longest max_length that is tried, in fifths of a millisecond.
MaxBuildLength == 11

\* The durations that are tried: None, zero, a negative one and the positive
\* ones.
BuildDurations == {None} \cup {Some(d) : d \in (0 - 1)..MaxBuildDuration}

\* Lines 218-222: the segments _parse_srt_segments reads from a usable
\* subtitle file.
ParsedSrtSegments == <<[clip_index |-> 0, start |-> 0, end |-> 10]>>

\* Lines 236-237: round(x, 3) of a time that is not negative: the nearest
\* whole millisecond.
Round3(x) == ((x + 2) \div 5) * 5

\* Line 232: end = min(duration, start + max_length).
SegmentEndUncapped(start, duration, max_length) == start + max_length

SegmentEnd(start, duration, max_length) == Min(duration, start + max_length)

\* Lines 29-31: TranslatorSegment accepts start >= 0 and end > 0.
ValidSegment(segment) == segment.start >= 0 /\ segment.end > 0

\* Lines 217-230: a usable subtitle file gives its segments; without a
\* positive duration the answer is one segment of max_length (not rounded);
\* else the loop is entered with start = 0.0 and clip_index = 0.
build_segments_enter ==
    /\ bs_pc = "called"
    /\ IF bs_subtitle = "usable"
       THEN /\ bs_segments' = ParsedSrtSegments
            /\ bs_pc' = "returned"
       ELSE IF bs_duration = None \/ bs_duration[1] <= 0
       THEN /\ bs_segments' = <<[clip_index |-> 0, start |-> 0, end |-> bs_max_length]>>
            /\ bs_pc' = "returned"
       ELSE /\ bs_pc' = "loop"
            /\ UNCHANGED bs_segments
    /\ UNCHANGED <<bs_duration, bs_max_length, bs_subtitle, bs_start, bs_clip_index>>
    /\ UNCHANGED <<subVars, projVars, renderVars, crawlVars, rankVars, appVars, editVars, transVars, scrapeVars, pageVars, pipeVars>>

\* Lines 231-241: one pass of the loop; the segment that is not valid ends
\* the call with a ValidationError.
build_segments_pass ==
    /\ bs_pc = "loop"
    /\ bs_start < bs_duration[1]
    /\ LET end == SegmentEnd(bs_start, bs_duration[1], bs_max_length)
           segment == [clip_index |-> bs_clip_index, start |-> Round3(bs_start), end |-> Round3(end)]
       IN IF ValidSegment(segment)
          THEN /\ bs_segments' = Append(bs_segments, segment)
               /\ bs_clip_index' = bs_clip_index + 1
               /\ bs_start' = end
               /\ UNCHANGED bs_pc
          ELSE /\ bs_pc' = "ValidationError"
               /\ UNCHANGED <<bs_segments, bs_clip_index, bs_start>>
    /\ UNCHANGED <<bs_duration, bs_max_length, bs_subtitle>>
    /\ UNCHANGED <<subVars, projVars, renderVars, crawlVars, rankVars, appVars, editVars, transVars, scrapeVars, pageVars, pipeVars>>

\* Lines 231 and 242: the loop condition fails and the segments are
\* returned.
build_segments_return ==
    /\ bs_pc = "loop"
    /\ ~(bs_start < bs_duration[1])
    /\ bs_pc' = "returned"
    /\ bs_segments' = IF bs_segments # <<>> THEN bs_segments
                      ELSE <<[clip_index |-> 0, start |-> 0, end |-> bs_duration[1]]>>
    /\ UNCHANGED <<bs_duration, bs_max_length, bs_subtitle, bs_start, bs_clip_index>>
    /\ UNCHANGED <<subVars, projVars, renderVars, crawlVars, rankVars, appVars, editVars, transVars, scrapeVars, pageVars, pipeVars>>

BuildSegmentsNext ==
    \/ build_segments_enter
    \/ build_segments_pass
    \/ build_segments_return

(***************************************************************************)
(*            11.coupang_wing_web.py: one call of scrape_coupang           *)
(*                                                                         *)
(* Each step is one awaited browser call (or one pass of the product loop) *)
(* with the outcome the browser gives it.                                  *)
(***************************************************************************)

\* How many li.search-product elements the result page holds at most.
MaxProducts == 3

\* search_params['max_results'] of the calls tried.
MaxResults == 2

\* Line 225: max_retries = 3.
max_retries == 3

\* What the product loop finds in an element: an advertisement, a product it
\* keeps, a product a filter drops, or an element whose reading raises.
ProductKinds == {"ad", "kept", "filtered", "error"}

ProductLists == UNION {[1..n -> ProductKinds] : n \in 0..MaxProducts}

\* A variant of RetryGoto: a failed navigation is never attempted again.
RetryGotoNever(attempt) == FALSE

\* Line 236: after a failed page.goto, `attempt < max_retries - 1` decides
\* between another attempt and re-raising.
RetryGoto(attempt) == attempt < max_retries - 1

\* Lines 405-415: an exception leaves through the finally that closes the
\* browser and is re-raised to run_scraper.
ScrapeRaises(at) ==
    /\ scrape_pc' = "raised"
    /\ scrape_error' = at
    /\ browser' = IF browser = "open" THEN "closed" ELSE browser

\* Lines 150-171: chromium.launch.
scrape_launch(launched) ==
    /\ scrape_pc = "launch"
    /\ IF launched
       THEN /\ browser' = "open"
            /\ scrape_pc' = "context"
            /\ UNCHANGED scrape_error
       ELSE ScrapeRaises("launch")
    /\ UNCHANGED <<goto_attempt, goto_calls, products, product_idx, results_len>>
    /\ UNCHANGED <<subVars, projVars, renderVars, crawlVars, rankVars, appVars, editVars, transVars, pageVars, pipeVars, buildVars>>

\* Lines 187-223: new_context, stealth, new_page, clear_cookies.
scrape_new_context(created) ==
    /\ scrape_pc = "context"
    /\ IF created
       THEN /\ scrape_pc' = "goto"
            /\ UNCHANGED <<browser, scrape_error>>
       ELSE ScrapeRaises("context")
    /\ UNCHANGED <<goto_attempt, goto_calls, products, product_idx, results_len>>
    /\ UNCHANGED <<subVars, projVars, renderVars, crawlVars, rankVars, appVars, editVars, transVars, pageVars, pipeVars, buildVars>>

\* Lines 225-242: one pass of `for attempt in range(max_retries)`: page.goto
\* succeeds (break), or fails and is attempted again after 3 s, or fails for
\* the last time and the exception is re-raised.
scrape_goto(reached) ==
    /\ scrape_pc = "goto"
    /\ goto_calls' = goto_calls + 1
    /\ IF reached
       THEN /\ scrape_pc' = "loaded"
            /\ UNCHANGED <<goto_attempt, browser, scrape_error>>
       ELSE IF RetryGoto(goto_attempt)
       THEN /\ goto_attempt' = goto_attempt + 1
            /\ UNCHANGED <<scrape_pc, browser, scrape_error>>
       ELSE /\ ScrapeRaises("goto")
            /\ UNCHANGED goto_attempt
    /\ UNCHANGED <<products, product_idx, results_len>>
    /\ UNCHANGED <<subVars, projVars, renderVars, crawlVars, rankVars, appVars, editVars, transVars, pageVars, pipeVars, buildVars>>

\* Lines 244-285: the ready state, the bot-detection check (which only
\* waits) and the scrolling; a failing browser call raises.
scrape_inspect(answered) ==
    /\ scrape_pc = "loaded"
    /\ IF answered
       THEN /\ scrape_pc' = "wait_list"
            /\ UNCHANGED <<browser, scrape_error>>
       ELSE ScrapeRaises("page")
    /\ UNCHANGED <<goto_attempt, goto_calls, products, product_idx, results_len>>
    /\ UNCHANGED <<subVars, projVars, renderVars, crawlVars, rankVars, appVars, editVars, transVars, pageVars, pipeVars, buildVars>>

\* Lines 288-305: wait_for_selector times out, or the list is empty, and the
\* scrape returns its empty results; otherwise the elements are collected.
scrape_wait_list(found) ==
    /\ scrape_pc = "wait_list"
    /\ products' = found
    /\ IF found = <<>>
       THEN /\ scrape_pc' = "returned"
            /\ browser' = "closed"
       ELSE /\ scrape_pc' = "products"
            /\ UNCHANGED browser
    /\ UNCHANGED <<goto_attempt, goto_calls, product_idx, results_len, scrape_error>>
    /\ UNCHANGED <<subVars, projVars, renderVars, crawlVars, rankVars, appVars, editVars, transVars, pageVars, pipeVars, buildVars>>

\* Lines 311-399: one pass of the product loop.  An advertisement, a filtered
\* product and an element that raises are skipped; a kept product is
\* appended, and the loop breaks once max_results are collected.
scrape_product ==
    /\ scrape_pc = "products"
    /\ product_idx < Len(products)
    /\ product_idx' = product_idx + 1
    /\ LET kept == products[product_idx + 1] = "kept"
           count == IF kept THEN results_len + 1 ELSE results_len
       IN /\ results_len' = count
          /\ scrape_pc' = IF (kept /\ count >= MaxResults) \/ product_idx + 1 = Len(products)
                          THEN "sort" ELSE "products"
    /\ UNCHANGED <<goto_attempt, goto_calls, products, browser, scrape_error>>
    /\ UNCHANGED <<subVars, projVars, renderVars, crawlVars, rankVars, appVars, editVars, transVars, pageVars, pipeVars, buildVars>>

\* Lines 401-416: the results are sorted by price, the finally closes the
\* browser and the results are returned.
scrape_return ==
    /\ scrape_pc = "sort"
    /\ scrape_pc' = "returned"
    /\ browser' = "closed"
    /\ UNCHANGED <<goto_attempt, goto_calls, products, product_idx, results_len, scrape_error>>
    /\ UNCHANGED <<subVars, projVars, renderVars, crawlVars, rankVars, appVars, editVars, transVars, pageVars, pipeVars, buildVars>>

ScrapeNext ==
    \/ \E launched \in BOOLEAN : scrape_launch(launched)
    \/ \E created \in BOOLEAN : scrape_new_context(created)
    \/ \E reached \in BOOLEAN : scrape_goto(reached)
    \/ \E answered \in BOOLEAN : scrape_inspect(answered)
    \/ \E found \in ProductLists : scrape_wait_list(found)
    \/ scrape_product
    \/ scrape_return

(***************************************************************************)
(*   2_app_web_coupang_rank_chrome_secretmode_server3ok.py: one call of    *)
(*   search_product                                                        *)
(*                                                                         *)
(* One step is one pass of `while page <= 27`: the page is loaded and      *)
(* scrolled (every browser call returns or raises) and the pass ends the   *)
(* way the browser's answer makes it end.                                  *)
(***************************************************************************)

\* The count of loop passes is kept up to this number and stays there.
MaxLoads == 29

\* Line 195: while page <= 27.
LastPage == 27

\* How one pass of the loop can end: no product list on the page (line 261),
\* a bot-detection page (line 270), the product found (line 276), the
\* product not on this page (line 280), an exception after which the driver
\* is restarted (line 299), and one after which it cannot be (line 297).
PassOutcomes == {"no_list", "bot_detected", "found", "not_on_page", "driver_restarted", "driver_lost"}

\* Lines 259-299: the value of `page` after a pass that does not return.
PageAfterPass(p, outcome) == IF outcome = "not_on_page" THEN p + 1 ELSE p

\* Lines 195-299: one pass of the loop.
search_product_pass(outcome) ==
    /\ sp_pc = "loop"
    /\ page <= LastPage
    /\ page_loads' = Min(page_loads + 1, MaxLoads)
    /\ pass_parity' = 1 - pass_parity
    /\ last_outcome' = outcome
    /\ IF outcome = "found"
       THEN /\ sp_pc' = "returned"
            /\ sp_result' = "found"
            /\ UNCHANGED page
       ELSE IF outcome = "driver_lost"
       THEN /\ sp_pc' = "returned"
            /\ sp_result' = "none"
            /\ UNCHANGED page
       ELSE /\ page' = PageAfterPass(page, outcome)
            /\ UNCHANGED <<sp_pc, sp_result>>
    /\ UNCHANGED <<subVars, projVars, renderVars, crawlVars, rankVars, appVars, editVars, transVars, scrapeVars, pipeVars, buildVars>>

\* Lines 301-302: the loop condition fails and None is returned (not found
\* within 27 pages).
search_product_exhausted ==
    /\ sp_pc = "loop"
    /\ page > LastPage
    /\ sp_pc' = "returned"
    /\ sp_result' = "not_found"
    /\ UNCHANGED <<page, page_loads, pass_parity, last_outcome>>
    /\ UNCHANGED <<subVars, projVars, renderVars, crawlVars, rankVars, appVars, editVars, transVars, scrapeVars, pipeVars, buildVars>>

PagesNext ==
    \/ \E outcome \in PassOutcomes : search_product_pass(outcome)
    \/ search_product_exhausted

(***************************************************************************)
(*                             Specifications                              *)
(*                                                                         *)
(* Every initial predicate gives its own subsystem its initial states and  *)
(* holds the other subsystems at rest.                                     *)
(***************************************************************************)

\* One call of allocate_caption_timings on any of the bounded inputs.
InitSubtitles ==
    /\ sentences \in SentenceLists
    /\ total_duration \in 1..MaxDuration
    /\ captions = <<>>
    /\ alloc_pc = "call"
    /\ legacy_file = NoFile
    /\ last_subtitle_id = NoId
    /\ meta_file = GeneratedProject
    /\ backups = <<>>
    /\ srt_file = [blocks |-> CaptionsToSrt(GeneratedProject.captions)]
    /\ clock = 1
    /\ last_call = [op |-> "generate", result |-> "ok"]
    /\ timeline = <<>>
    /\ base_duration = 0
    /\ clips = <<>>
    /\ render_pc = "built"
    /\ playwright_available = TRUE
    /\ is_scraping = FALSE
    /\ scraping_results = 0
    /\ request_pc = <<>>
    /\ thread_pc = <<>>
    /\ search_active = FALSE
    /\ rank_pc = <<>>
    /\ rank_origin = <<>>
    /\ rank_row = <<>>
    /\ last_start = "none"
    /\ stop_pending = {}
    /\ job_kind = <<>>
    /\ job_pc = <<>>
    /\ job_answer = <<>>
    /\ edit_pc = <<>>
    /\ edit_metadata = <<>>
    /\ edit_base = <<>>
    /\ edit_answer = <<>>
    /\ tr_file = NoFile
    /\ tr_versions = <<>>
    /\ tr_clock = 1
    /\ tr_request = [route |-> "none"]
    /\ tr_response = [status |-> 0, raised |-> "none"]
    /\ scrape_pc = "returned"
    /\ goto_attempt = 0
    /\ goto_calls = 0
    /\ products = <<>>
    /\ product_idx = 0
    /\ results_len = 0
    /\ browser = "none"
    /\ scrape_error = "none"
    /\ page = 1
    /\ page_loads = 0
    /\ pass_parity = 0
    /\ last_outcome = "none"
    /\ sp_pc = "returned"
    /\ sp_result = "none"
    /\ tp_file = NoFile
    /\ tp_versions = 0
    /\ tp_subtitle = "no_path"
    /\ tp_call = [w \in Workers |-> IdleCall]
    /\ tp_last = NoReturn
    /\ tp_statuses = <<>>
    /\ tp_started = 0
    /\ bs_duration = None
    /\ bs_max_length = 1
    /\ bs_subtitle = "none"
    /\ bs_start = 0
    /\ bs_clip_index = 0
    /\ bs_segments = <<>>
    /\ bs_pc = "returned"

SubNext == AllocateCaptionTimings

SpecSubtitles == InitSubtitles /\ [][SubNext]_vars

\* The project as generate_short left it (a full run, a full run with save_json,
\* or a dry run with save_json), then any sequence of service calls.
InitProject ==
    /\ sentences = <<>>
    /\ total_duration = 1
    /\ captions = <<>>
    /\ alloc_pc = "returned"
    /\ legacy_file \in {NoFile, GeneratedProject, DryRunJson}
    /\ last_subtitle_id = NoId
    /\ meta_file = IF legacy_file = DryRunJson THEN NoFile ELSE GeneratedProject
    /\ backups = <<>>
    /\ srt_file = IF legacy_file = DryRunJson THEN NoFile ELSE [blocks |-> CaptionsToSrt(GeneratedProject.captions)]
    /\ clock = 1
    /\ last_call = [op |-> "generate", result |-> "ok"]
    /\ timeline = <<>>
    /\ base_duration = 0
    /\ clips = <<>>
    /\ render_pc = "built"
    /\ playwright_available = TRUE
    /\ is_scraping = FALSE
    /\ scraping_results = 0
    /\ request_pc = <<>>
    /\ thread_pc = <<>>
    /\ search_active = FALSE
    /\ rank_pc = <<>>
    /\ rank_origin = <<>>
    /\ rank_row = <<>>
    /\ last_start = "none"
    /\ stop_pending = {}
    /\ job_kind = <<>>
    /\ job_pc = <<>>
    /\ job_answer = <<>>
    /\ edit_pc = <<>>
    /\ edit_metadata = <<>>
    /\ edit_base = <<>>
    /\ edit_answer = <<>>
    /\ tr_file = NoFile
    /\ tr_versions = <<>>
    /\ tr_clock = 1
    /\ tr_request = [route |-> "none"]
    /\ tr_response = [status |-> 0, raised |-> "none"]
    /\ scrape_pc = "returned"
    /\ goto_attempt = 0
    /\ goto_calls = 0
    /\ products = <<>>
    /\ product_idx = 0
    /\ results_len = 0
    /\ browser = "none"
    /\ scrape_error = "none"
    /\ page = 1
    /\ page_loads = 0
    /\ pass_parity = 0
    /\ last_outcome = "none"
    /\ sp_pc = "returned"
    /\ sp_result = "none"
    /\ tp_file = NoFile
    /\ tp_versions = 0
    /\ tp_subtitle = "no_path"
    /\ tp_call = [w \in Workers |-> IdleCall]
    /\ tp_last = NoReturn
    /\ tp_statuses = <<>>
    /\ tp_started = 0
    /\ bs_duration = None
    /\ bs_max_length = 1
    /\ bs_subtitle = "none"
    /\ bs_start = 0
    /\ bs_clip_index = 0
    /\ bs_segments = <<>>
    /\ bs_pc = "returned"

SpecProject == InitProject /\ [][ProjNext]_vars

\* The same project under the subtitle-editing calls alone.
SpecSubtitleEdits == InitProject /\ [][SubtitleEditNext]_vars

\* render_project on any of the bounded timelines.
InitRender ==
    /\ sentences = <<>>
    /\ total_duration = 1
    /\ captions = <<>>
    /\ alloc_pc = "returned"
    /\ legacy_file = NoFile
    /\ last_subtitle_id = NoId
    /\ meta_file = GeneratedProject
    /\ backups = <<>>
    /\ srt_file = [blocks |-> CaptionsToSrt(GeneratedProject.captions)]
    /\ clock = 1
    /\ last_call = [op |-> "generate", result |-> "ok"]
    /\ timeline \in Timelines
    /\ base_duration \in ProjectDurations
    /\ clips = <<>>
    /\ render_pc = "call"
    /\ playwright_available = TRUE
    /\ is_scraping = FALSE
    /\ scraping_results = 0
    /\ request_pc = <<>>
    /\ thread_pc = <<>>
    /\ search_active = FALSE
    /\ rank_pc = <<>>
    /\ rank_origin = <<>>
    /\ rank_row = <<>>
    /\ last_start = "none"
    /\ stop_pending = {}
    /\ job_kind = <<>>
    /\ job_pc = <<>>
    /\ job_answer = <<>>
    /\ edit_pc = <<>>
    /\ edit_metadata = <<>>
    /\ edit_base = <<>>
    /\ edit_answer = <<>>
    /\ tr_file = NoFile
    /\ tr_versions = <<>>
    /\ tr_clock = 1
    /\ tr_request = [route |-> "none"]
    /\ tr_response = [status |-> 0, raised |-> "none"]
    /\ scrape_pc = "returned"
    /\ goto_attempt = 0
    /\ goto_calls = 0
    /\ products = <<>>
    /\ product_idx = 0
    /\ results_len = 0
    /\ browser = "none"
    /\ scrape_error = "none"
    /\ page = 1
    /\ page_loads = 0
    /\ pass_parity = 0
    /\ last_outcome = "none"
    /\ sp_pc = "returned"
    /\ sp_result = "none"
    /\ tp_file = NoFile
    /\ tp_versions = 0
    /\ tp_subtitle = "no_path"
    /\ tp_call = [w \in Workers |-> IdleCall]
    /\ tp_last = NoReturn
    /\ tp_statuses = <<>>
    /\ tp_started = 0
    /\ bs_duration = None
    /\ bs_max_length = 1
    /\ bs_subtitle = "none"
    /\ bs_start = 0
    /\ bs_clip_index = 0
    /\ bs_segments = <<>>
    /\ bs_pc = "returned"

SpecRender == InitRender /\ [][RenderNext]_vars

\* The crawler web server after start-up, with MaxRequests requests to come.
InitCrawler ==
    /\ sentences = <<>>
    /\ total_duration = 1
    /\ captions = <<>>
    /\ alloc_pc = "returned"
    /\ legacy_file = NoFile
    /\ last_subtitle_id = NoId
    /\ meta_file = GeneratedProject
    /\ backups = <<>>
    /\ srt_file = [blocks |-> CaptionsToSrt(GeneratedProject.captions)]
    /\ clock = 1
    /\ last_call = [op |-> "generate", result |-> "ok"]
    /\ timeline = <<>>
    /\ base_duration = 0
    /\ clips = <<>>
    /\ render_pc = "built"
    /\ playwright_available \in BOOLEAN
    /\ is_scraping = FALSE
    /\ scraping_results = 0
    /\ request_pc = [r \in Requests |-> "not_sent"]
    /\ thread_pc = [r \in Requests |-> "none"]
    /\ search_active = FALSE
    /\ rank_pc = <<>>
    /\ rank_origin = <<>>
    /\ rank_row = <<>>
    /\ last_start = "none"
    /\ stop_pending = {}
    /\ job_kind = <<>>
    /\ job_pc = <<>>
    /\ job_answer = <<>>
    /\ edit_pc = <<>>
    /\ edit_metadata = <<>>
    /\ edit_base = <<>>
    /\ edit_answer = <<>>
    /\ tr_file = NoFile
    /\ tr_versions = <<>>
    /\ tr_clock = 1
    /\ tr_request = [route |-> "none"]
    /\ tr_response = [status |-> 0, raised |-> "none"]
    /\ scrape_pc = "returned"
    /\ goto_attempt = 0
    /\ goto_calls = 0
    /\ products = <<>>
    /\ product_idx = 0
    /\ results_len = 0
    /\ browser = "none"
    /\ scrape_error = "none"
    /\ page = 1
    /\ page_loads = 0
    /\ pass_parity = 0
    /\ last_outcome = "none"
    /\ sp_pc = "returned"
    /\ sp_result = "none"
    /\ tp_file = NoFile
    /\ tp_versions = 0
    /\ tp_subtitle = "no_path"
    /\ tp_call = [w \in Workers |-> IdleCall]
    /\ tp_last = NoReturn
    /\ tp_statuses = <<>>
    /\ tp_started = 0
    /\ bs_duration = None
    /\ bs_max_length = 1
    /\ bs_subtitle = "none"
    /\ bs_start = 0
    /\ bs_clip_index = 0
    /\ bs_segments = <<>>
    /\ bs_pc = "returned"

SpecCrawler == InitCrawler /\ [][CrawlNext]_vars

\* The rank server after start-up (line 464): the flag clear, no thread started.
InitRank ==
    /\ sentences = <<>>
    /\ total_duration = 1
    /\ captions = <<>>
    /\ alloc_pc = "returned"
    /\ legacy_file = NoFile
    /\ last_subtitle_id = NoId
    /\ meta_file = GeneratedProject
    /\ backups = <<>>
    /\ srt_file = [blocks |-> CaptionsToSrt(GeneratedProject.captions)]
    /\ clock = 1
    /\ last_call = [op |-> "generate", result |-> "ok"]
    /\ timeline = <<>>
    /\ base_duration = 0
    /\ clips = <<>>
    /\ render_pc = "built"
    /\ playwright_available = TRUE
    /\ is_scraping = FALSE
    /\ scraping_results = 0
    /\ request_pc = <<>>
    /\ thread_pc = <<>>
    /\ search_active = FALSE
    /\ rank_pc = [t \in Searches |-> "none"]
    /\ rank_origin = [t \in Searches |-> "none"]
    /\ rank_row = [t \in Searches |-> 0]
    /\ last_start = "none"
    /\ stop_pending = {}
    /\ job_kind = <<>>
    /\ job_pc = <<>>
    /\ job_answer = <<>>
    /\ edit_pc = <<>>
    /\ edit_metadata = <<>>
    /\ edit_base = <<>>
    /\ edit_answer = <<>>
    /\ tr_file = NoFile
    /\ tr_versions = <<>>
    /\ tr_clock = 1
    /\ tr_request = [route |-> "none"]
    /\ tr_response = [status |-> 0, raised |-> "none"]
    /\ scrape_pc = "returned"
    /\ goto_attempt = 0
    /\ goto_calls = 0
    /\ products = <<>>
    /\ product_idx = 0
    /\ results_len = 0
    /\ browser = "none"
    /\ scrape_error = "none"
    /\ page = 1
    /\ page_loads = 0
    /\ pass_parity = 0
    /\ last_outcome = "none"
    /\ sp_pc = "returned"
    /\ sp_result = "none"
    /\ tp_file = NoFile
    /\ tp_versions = 0
    /\ tp_subtitle = "no_path"
    /\ tp_call = [w \in Workers |-> IdleCall]
    /\ tp_last = NoReturn
    /\ tp_statuses = <<>>
    /\ tp_started = 0
    /\ bs_duration = None
    /\ bs_max_length = 1
    /\ bs_subtitle = "none"
    /\ bs_start = 0
    /\ bs_clip_index = 0
    /\ bs_segments = <<>>
    /\ bs_pc = "returned"

SpecRank == InitRank /\ [][RankNext]_vars

\* The web server of the video pipeline with MaxJobs job requests to come.
InitApp ==
    /\ sentences = <<>>
    /\ total_duration = 1
    /\ captions = <<>>
    /\ alloc_pc = "returned"
    /\ legacy_file = NoFile
    /\ last_subtitle_id = NoId
    /\ meta_file = GeneratedProject
    /\ backups = <<>>
    /\ srt_file = [blocks |-> CaptionsToSrt(GeneratedProject.captions)]
    /\ clock = 1
    /\ last_call = [op |-> "generate", result |-> "ok"]
    /\ timeline = <<>>
    /\ base_duration = 0
    /\ clips = <<>>
    /\ render_pc = "built"
    /\ playwright_available = TRUE
    /\ is_scraping = FALSE
    /\ scraping_results = 0
    /\ request_pc = <<>>
    /\ thread_pc = <<>>
    /\ search_active = FALSE
    /\ rank_pc = <<>>
    /\ rank_origin = <<>>
    /\ rank_row = <<>>
    /\ last_start = "none"
    /\ stop_pending = {}
    /\ job_kind = [j \in Jobs |-> "none"]
    /\ job_pc = [j \in Jobs |-> "not_sent"]
    /\ job_answer = [j \in Jobs |-> "none"]
    /\ edit_pc = <<>>
    /\ edit_metadata = <<>>
    /\ edit_base = <<>>
    /\ edit_answer = <<>>
    /\ tr_file = NoFile
    /\ tr_versions = <<>>
    /\ tr_clock = 1
    /\ tr_request = [route |-> "none"]
    /\ tr_response = [status |-> 0, raised |-> "none"]
    /\ scrape_pc = "returned"
    /\ goto_attempt = 0
    /\ goto_calls = 0
    /\ products = <<>>
    /\ product_idx = 0
    /\ results_len = 0
    /\ browser = "none"
    /\ scrape_error = "none"
    /\ page = 1
    /\ page_loads = 0
    /\ pass_parity = 0
    /\ last_outcome = "none"
    /\ sp_pc = "returned"
    /\ sp_result = "none"
    /\ tp_file = NoFile
    /\ tp_versions = 0
    /\ tp_subtitle = "no_path"
    /\ tp_call = [w \in Workers |-> IdleCall]
    /\ tp_last = NoReturn
    /\ tp_statuses = <<>>
    /\ tp_started = 0
    /\ bs_duration = None
    /\ bs_max_length = 1
    /\ bs_subtitle = "none"
    /\ bs_start = 0
    /\ bs_clip_index = 0
    /\ bs_segments = <<>>
    /\ bs_pc = "returned"

SpecApp == InitApp /\ [][AppNext]_vars

\* The generated project, with MaxEdits add_subtitle requests to come.
InitEdits ==
    /\ sentences = <<>>
    /\ total_duration = 1
    /\ captions = <<>>
    /\ alloc_pc = "returned"
    /\ legacy_file = NoFile
    /\ last_subtitle_id = NoId
    /\ meta_file = GeneratedProject
    /\ backups = <<>>
    /\ srt_file = [blocks |-> CaptionsToSrt(GeneratedProject.captions)]
    /\ clock = 1
    /\ last_call = [op |-> "generate", result |-> "ok"]
    /\ timeline = <<>>
    /\ base_duration = 0
    /\ clips = <<>>
    /\ render_pc = "built"
    /\ playwright_available = TRUE
    /\ is_scraping = FALSE
    /\ scraping_results = 0
    /\ request_pc = <<>>
    /\ thread_pc = <<>>
    /\ search_active = FALSE
    /\ rank_pc = <<>>
    /\ rank_origin = <<>>
    /\ rank_row = <<>>
    /\ last_start = "none"
    /\ stop_pending = {}
    /\ job_kind = <<>>
    /\ job_pc = <<>>
    /\ job_answer = <<>>
    /\ edit_pc = [e \in Edits |-> "not_sent"]
    /\ edit_metadata = [e \in Edits |-> NoFile]
    /\ edit_base = [e \in Edits |-> 0]
    /\ edit_answer = [e \in Edits |-> "none"]
    /\ tr_file = NoFile
    /\ tr_versions = <<>>
    /\ tr_clock = 1
    /\ tr_request = [route |-> "none"]
    /\ tr_response = [status |-> 0, raised |-> "none"]
    /\ scrape_pc = "returned"
    /\ goto_attempt = 0
    /\ goto_calls = 0
    /\ products = <<>>
    /\ product_idx = 0
    /\ results_len = 0
    /\ browser = "none"
    /\ scrape_error = "none"
    /\ page = 1
    /\ page_loads = 0
    /\ pass_parity = 0
    /\ last_outcome = "none"
    /\ sp_pc = "returned"
    /\ sp_result = "none"
    /\ tp_file = NoFile
    /\ tp_versions = 0
    /\ tp_subtitle = "no_path"
    /\ tp_call = [w \in Workers |-> IdleCall]
    /\ tp_last = NoReturn
    /\ tp_statuses = <<>>
    /\ tp_started = 0
    /\ bs_duration = None
    /\ bs_max_length = 1
    /\ bs_subtitle = "none"
    /\ bs_start = 0
    /\ bs_clip_index = 0
    /\ bs_segments = <<>>
    /\ bs_pc = "returned"

SpecEdits == InitEdits /\ [][EditsNext]_vars

\* A translator project as create_project left it, or no project, then any
\* sequence of segment-edit requests.
InitTranslator ==
    /\ sentences = <<>>
    /\ total_duration = 1
    /\ captions = <<>>
    /\ alloc_pc = "returned"
    /\ legacy_file = NoFile
    /\ last_subtitle_id = NoId
    /\ meta_file = GeneratedProject
    /\ backups = <<>>
    /\ srt_file = [blocks |-> CaptionsToSrt(GeneratedProject.captions)]
    /\ clock = 1
    /\ last_call = [op |-> "generate", result |-> "ok"]
    /\ timeline = <<>>
    /\ base_duration = 0
    /\ clips = <<>>
    /\ render_pc = "built"
    /\ playwright_available = TRUE
    /\ is_scraping = FALSE
    /\ scraping_results = 0
    /\ request_pc = <<>>
    /\ thread_pc = <<>>
    /\ search_active = FALSE
    /\ rank_pc = <<>>
    /\ rank_origin = <<>>
    /\ rank_row = <<>>
    /\ last_start = "none"
    /\ stop_pending = {}
    /\ job_kind = <<>>
    /\ job_pc = <<>>
    /\ job_answer = <<>>
    /\ edit_pc = <<>>
    /\ edit_metadata = <<>>
    /\ edit_base = <<>>
    /\ edit_answer = <<>>
    /\ tr_file \in {CreatedTranslatorProject, NoFile}
    /\ tr_versions = <<>>
    /\ tr_clock = 1
    /\ tr_request = [route |-> "none"]
    /\ tr_response = [status |-> 0, raised |-> "none"]
    /\ scrape_pc = "returned"
    /\ goto_attempt = 0
    /\ goto_calls = 0
    /\ products = <<>>
    /\ product_idx = 0
    /\ results_len = 0
    /\ browser = "none"
    /\ scrape_error = "none"
    /\ page = 1
    /\ page_loads = 0
    /\ pass_parity = 0
    /\ last_outcome = "none"
    /\ sp_pc = "returned"
    /\ sp_result = "none"
    /\ tp_file = NoFile
    /\ tp_versions = 0
    /\ tp_subtitle = "no_path"
    /\ tp_call = [w \in Workers |-> IdleCall]
    /\ tp_last = NoReturn
    /\ tp_statuses = <<>>
    /\ tp_started = 0
    /\ bs_duration = None
    /\ bs_max_length = 1
    /\ bs_subtitle = "none"
    /\ bs_start = 0
    /\ bs_clip_index = 0
    /\ bs_segments = <<>>
    /\ bs_pc = "returned"

SpecTranslator == InitTranslator /\ [][TranslatorNext]_vars

\* scrape_coupang has just been called.
InitScrape ==
    /\ sentences = <<>>
    /\ total_duration = 1
    /\ captions = <<>>
    /\ alloc_pc = "returned"
    /\ legacy_file = NoFile
    /\ last_subtitle_id = NoId
    /\ meta_file = GeneratedProject
    /\ backups = <<>>
    /\ srt_file = [blocks |-> CaptionsToSrt(GeneratedProject.captions)]
    /\ clock = 1
    /\ last_call = [op |-> "generate", result |-> "ok"]
    /\ timeline = <<>>
    /\ base_duration = 0
    /\ clips = <<>>
    /\ render_pc = "built"
    /\ playwright_available = TRUE
    /\ is_scraping = FALSE
    /\ scraping_results = 0
    /\ request_pc = <<>>
    /\ thread_pc = <<>>
    /\ search_active = FALSE
    /\ rank_pc = <<>>
    /\ rank_origin = <<>>
    /\ rank_row = <<>>
    /\ last_start = "none"
    /\ stop_pending = {}
    /\ job_kind = <<>>
    /\ job_pc = <<>>
    /\ job_answer = <<>>
    /\ edit_pc = <<>>
    /\ edit_metadata = <<>>
    /\ edit_base = <<>>
    /\ edit_answer = <<>>
    /\ tr_file = NoFile
    /\ tr_versions = <<>>
    /\ tr_clock = 1
    /\ tr_request = [route |-> "none"]
    /\ tr_response = [status |-> 0, raised |-> "none"]
    /\ scrape_pc = "launch"
    /\ goto_attempt = 0
    /\ goto_calls = 0
    /\ products = <<>>
    /\ product_idx = 0
    /\ results_len = 0
    /\ browser = "none"
    /\ scrape_error = "none"
    /\ page = 1
    /\ page_loads = 0
    /\ pass_parity = 0
    /\ last_outcome = "none"
    /\ sp_pc = "returned"
    /\ sp_result = "none"
    /\ tp_file = NoFile
    /\ tp_versions = 0
    /\ tp_subtitle = "no_path"
    /\ tp_call = [w \in Workers |-> IdleCall]
    /\ tp_last = NoReturn
    /\ tp_statuses = <<>>
    /\ tp_started = 0
    /\ bs_duration = None
    /\ bs_max_length = 1
    /\ bs_subtitle = "none"
    /\ bs_start = 0
    /\ bs_clip_index = 0
    /\ bs_segments = <<>>
    /\ bs_pc = "returned"

SpecScrape == InitScrape /\ [][ScrapeNext]_vars

\* search_product has just been called (line 193: page = 1).
InitPages ==
    /\ sentences = <<>>
    /\ total_duration = 1
    /\ captions = <<>>
    /\ alloc_pc = "returned"
    /\ legacy_file = NoFile
    /\ last_subtitle_id = NoId
    /\ meta_file = GeneratedProject
    /\ backups = <<>>
    /\ srt_file = [blocks |-> CaptionsToSrt(GeneratedProject.captions)]
    /\ clock = 1
    /\ last_call = [op |-> "generate", result |-> "ok"]
    /\ timeline = <<>>
    /\ base_duration = 0
    /\ clips = <<>>
    /\ render_pc = "built"
    /\ playwright_available = TRUE
    /\ is_scraping = FALSE
    /\ scraping_results = 0
    /\ request_pc = <<>>
    /\ thread_pc = <<>>
    /\ search_active = FALSE
    /\ rank_pc = <<>>
    /\ rank_origin = <<>>
    /\ rank_row = <<>>
    /\ last_start = "none"
    /\ stop_pending = {}
    /\ job_kind = <<>>
    /\ job_pc = <<>>
    /\ job_answer = <<>>
    /\ edit_pc = <<>>
    /\ edit_metadata = <<>>
    /\ edit_base = <<>>
    /\ edit_answer = <<>>
    /\ tr_file = NoFile
    /\ tr_versions = <<>>
    /\ tr_clock = 1
    /\ tr_request = [route |-> "none"]
    /\ tr_response = [status |-> 0, raised |-> "none"]
    /\ scrape_pc = "returned"
    /\ goto_attempt = 0
    /\ goto_calls = 0
    /\ products = <<>>
    /\ product_idx = 0
    /\ results_len = 0
    /\ browser = "none"
    /\ scrape_error = "none"
    /\ page = 1
    /\ page_loads = 0
    /\ pass_parity = 0
    /\ last_outcome = "none"
    /\ sp_pc = "loop"
    /\ sp_result = "none"
    /\ tp_file = NoFile
    /\ tp_versions = 0
    /\ tp_subtitle = "no_path"
    /\ tp_call = [w \in Workers |-> IdleCall]
    /\ tp_last = NoReturn
    /\ tp_statuses = <<>>
    /\ tp_started = 0
    /\ bs_duration = None
    /\ bs_max_length = 1
    /\ bs_subtitle = "none"
    /\ bs_start = 0
    /\ bs_clip_index = 0
    /\ bs_segments = <<>>
    /\ bs_pc = "returned"

SpecPages == InitPages /\ [][PagesNext]_vars

\* The same with the loop running on: a pass that can be made is made.
SpecPagesFair == SpecPages /\ WF_vars(PagesNext)

\* create_project has saved a translator project.
InitPipeline ==
    /\ sentences = <<>>
    /\ total_duration = 1
    /\ captions = <<>>
    /\ alloc_pc = "returned"
    /\ legacy_file = NoFile
    /\ last_subtitle_id = NoId
    /\ meta_file = GeneratedProject
    /\ backups = <<>>
    /\ srt_file = [blocks |-> CaptionsToSrt(GeneratedProject.captions)]
    /\ clock = 1
    /\ last_call = [op |-> "generate", result |-> "ok"]
    /\ timeline = <<>>
    /\ base_duration = 0
    /\ clips = <<>>
    /\ render_pc = "built"
    /\ playwright_available = TRUE
    /\ is_scraping = FALSE
    /\ scraping_results = 0
    /\ request_pc = <<>>
    /\ thread_pc = <<>>
    /\ search_active = FALSE
    /\ rank_pc = <<>>
    /\ rank_origin = <<>>
    /\ rank_row = <<>>
    /\ last_start = "none"
    /\ stop_pending = {}
    /\ job_kind = <<>>
    /\ job_pc = <<>>
    /\ job_answer = <<>>
    /\ edit_pc = <<>>
    /\ edit_metadata = <<>>
    /\ edit_base = <<>>
    /\ edit_answer = <<>>
    /\ tr_file = NoFile
    /\ tr_versions = <<>>
    /\ tr_clock = 1
    /\ tr_request = [route |-> "none"]
    /\ tr_response = [status |-> 0, raised |-> "none"]
    /\ scrape_pc = "returned"
    /\ goto_attempt = 0
    /\ goto_calls = 0
    /\ products = <<>>
    /\ product_idx = 0
    /\ results_len = 0
    /\ browser = "none"
    /\ scrape_error = "none"
    /\ page = 1
    /\ page_loads = 0
    /\ pass_parity = 0
    /\ last_outcome = "none"
    /\ sp_pc = "returned"
    /\ sp_result = "none"
    /\ tp_file \in {CreatedPipelineProject(segments, mode) : segments \in CreatedSegmentLists, mode \in {"subtitle", "commentary", "both"}}
    /\ tp_versions = 1
    /\ tp_subtitle \in SubtitleStates
    /\ tp_call = [w \in Workers |-> IdleCall]
    /\ tp_last = NoReturn
    /\ tp_statuses = <<"segmenting">>
    /\ tp_started = 0
    /\ bs_duration = None
    /\ bs_max_length = 1
    /\ bs_subtitle = "none"
    /\ bs_start = 0
    /\ bs_clip_index = 0
    /\ bs_segments = <<>>
    /\ bs_pc = "returned"

SpecPipeline == InitPipeline /\ [][PipelineNext]_vars

\* The same project, open to the pipeline operations and to
\* reset_project_to_translated.
InitTranslatorOps ==
    /\ sentences = <<>>
    /\ total_duration = 1
    /\ captions = <<>>
    /\ alloc_pc = "returned"
    /\ legacy_file = NoFile
    /\ last_subtitle_id = NoId
    /\ meta_file = GeneratedProject
    /\ backups = <<>>
    /\ srt_file = [blocks |-> CaptionsToSrt(GeneratedProject.captions)]
    /\ clock = 1
    /\ last_call = [op |-> "generate", result |-> "ok"]
    /\ timeline = <<>>
    /\ base_duration = 0
    /\ clips = <<>>
    /\ render_pc = "built"
    /\ playwright_available = TRUE
    /\ is_scraping = FALSE
    /\ scraping_results = 0
    /\ request_pc = <<>>
    /\ thread_pc = <<>>
    /\ search_active = FALSE
    /\ rank_pc = <<>>
    /\ rank_origin = <<>>
    /\ rank_row = <<>>
    /\ last_start = "none"
    /\ stop_pending = {}
    /\ job_kind = <<>>
    /\ job_pc = <<>>
    /\ job_answer = <<>>
    /\ edit_pc = <<>>
    /\ edit_metadata = <<>>
    /\ edit_base = <<>>
    /\ edit_answer = <<>>
    /\ tr_file = NoFile
    /\ tr_versions = <<>>
    /\ tr_clock = 1
    /\ tr_request = [route |-> "none"]
    /\ tr_response = [status |-> 0, raised |-> "none"]
    /\ scrape_pc = "returned"
    /\ goto_attempt = 0
    /\ goto_calls = 0
    /\ products = <<>>
    /\ product_idx = 0
    /\ results_len = 0
    /\ browser = "none"
    /\ scrape_error = "none"
    /\ page = 1
    /\ page_loads = 0
    /\ pass_parity = 0
    /\ last_outcome = "none"
    /\ sp_pc = "returned"
    /\ sp_result = "none"
    /\ tp_file \in {CreatedPipelineProject(segments, mode) : segments \in CreatedSegmentLists, mode \in {"subtitle", "commentary", "both"}}
    /\ tp_versions = 1
    /\ tp_subtitle \in SubtitleStates
    /\ tp_call = [w \in Workers |-> IdleCall]
    /\ tp_last = NoReturn
    /\ tp_statuses = <<"segmenting">>
    /\ tp_started = 0
    /\ bs_duration = None
    /\ bs_max_length = 1
    /\ bs_subtitle = "none"
    /\ bs_start = 0
    /\ bs_clip_index = 0
    /\ bs_segments = <<>>
    /\ bs_pc = "returned"

SpecTranslatorOps == InitTranslatorOps /\ [][TranslatorOpsNext]_vars

\* The same project, open to reorder_project_segments.
InitReorder ==
    /\ sentences = <<>>
    /\ total_duration = 1
    /\ captions = <<>>
    /\ alloc_pc = "returned"
    /\ legacy_file = NoFile
    /\ last_subtitle_id = NoId
    /\ meta_file = GeneratedProject
    /\ backups = <<>>
    /\ srt_file = [blocks |-> CaptionsToSrt(GeneratedProject.captions)]
    /\ clock = 1
    /\ last_call = [op |-> "generate", result |-> "ok"]
    /\ timeline = <<>>
    /\ base_duration = 0
    /\ clips = <<>>
    /\ render_pc = "built"
    /\ playwright_available = TRUE
    /\ is_scraping = FALSE
    /\ scraping_results = 0
    /\ request_pc = <<>>
    /\ thread_pc = <<>>
    /\ search_active = FALSE
    /\ rank_pc = <<>>
    /\ rank_origin = <<>>
    /\ rank_row = <<>>
    /\ last_start = "none"
    /\ stop_pending = {}
    /\ job_kind = <<>>
    /\ job_pc = <<>>
    /\ job_answer = <<>>
    /\ edit_pc = <<>>
    /\ edit_metadata = <<>>
    /\ edit_base = <<>>
    /\ edit_answer = <<>>
    /\ tr_file = NoFile
    /\ tr_versions = <<>>
    /\ tr_clock = 1
    /\ tr_request = [route |-> "none"]
    /\ tr_response = [status |-> 0, raised |-> "none"]
    /\ scrape_pc = "returned"
    /\ goto_attempt = 0
    /\ goto_calls = 0
    /\ products = <<>>
    /\ product_idx = 0
    /\ results_len = 0
    /\ browser = "none"
    /\ scrape_error = "none"
    /\ page = 1
    /\ page_loads = 0
    /\ pass_parity = 0
    /\ last_outcome = "none"
    /\ sp_pc = "returned"
    /\ sp_result = "none"
    /\ tp_file \in {CreatedPipelineProject(segments, mode) : segments \in CreatedSegmentLists, mode \in {"subtitle"}}
    /\ tp_versions = 1
    /\ tp_subtitle = "no_path"
    /\ tp_call = [w \in Workers |-> IdleCall]
    /\ tp_last = NoReturn
    /\ tp_statuses = <<"segmenting">>
    /\ tp_started = 0
    /\ bs_duration = None
    /\ bs_max_length = 1
    /\ bs_subtitle = "none"
    /\ bs_start = 0
    /\ bs_clip_index = 0
    /\ bs_segments = <<>>
    /\ bs_pc = "returned"

SpecReorder == InitReorder /\ [][ReorderNext]_vars

\* _build_segments has just been called with a positive max_length.
InitBuildSegments ==
    /\ sentences = <<>>
    /\ total_duration = 1
    /\ captions = <<>>
    /\ alloc_pc = "returned"
    /\ legacy_file = NoFile
    /\ last_subtitle_id = NoId
    /\ meta_file = GeneratedProject
    /\ backups = <<>>
    /\ srt_file = [blocks |-> CaptionsToSrt(GeneratedProject.captions)]
    /\ clock = 1
    /\ last_call = [op |-> "generate", result |-> "ok"]
    /\ timeline = <<>>
    /\ base_duration = 0
    /\ clips = <<>>
    /\ render_pc = "built"
    /\ playwright_available = TRUE
    /\ is_scraping = FALSE
    /\ scraping_results = 0
    /\ request_pc = <<>>
    /\ thread_pc = <<>>
    /\ search_active = FALSE
    /\ rank_pc = <<>>
    /\ rank_origin = <<>>
    /\ rank_row = <<>>
    /\ last_start = "none"
    /\ stop_pending = {}
    /\ job_kind = <<>>
    /\ job_pc = <<>>
    /\ job_answer = <<>>
    /\ edit_pc = <<>>
    /\ edit_metadata = <<>>
    /\ edit_base = <<>>
    /\ edit_answer = <<>>
    /\ tr_file = NoFile
    /\ tr_versions = <<>>
    /\ tr_clock = 1
    /\ tr_request = [route |-> "none"]
    /\ tr_response = [status |-> 0, raised |-> "none"]
    /\ scrape_pc = "returned"
    /\ goto_attempt = 0
    /\ goto_calls = 0
    /\ products = <<>>
    /\ product_idx = 0
    /\ results_len = 0
    /\ browser = "none"
    /\ scrape_error = "none"
    /\ page = 1
    /\ page_loads = 0
    /\ pass_parity = 0
    /\ last_outcome = "none"
    /\ sp_pc = "returned"
    /\ sp_result = "none"
    /\ tp_file = NoFile
    /\ tp_versions = 0
    /\ tp_subtitle = "no_path"
    /\ tp_call = [w \in Workers |-> IdleCall]
    /\ tp_last = NoReturn
    /\ tp_statuses = <<>>
    /\ tp_started = 0
    /\ bs_duration \in BuildDurations
    /\ bs_max_length \in 1..MaxBuildLength
    /\ bs_subtitle \in {"none", "unusable", "usable"}
    /\ bs_start = 0
    /\ bs_clip_index = 0
    /\ bs_segments = <<>>
    /\ bs_pc = "called"

SpecBuildSegments == InitBuildSegments /\ [][BuildSegmentsNext]_vars

(***************************************************************************)
(*                  Claims about allocate_caption_timings                  *)
(***************************************************************************)

Returned == alloc_pc = "returned"

CaptionLength(i) == captions[i].end - captions[i].start

\* The proportional share of sentence i, in the units of the call.
ShareOf(i) == total_duration * Len(sentences[i])

C2_StartBeforeEnd ==
    (Returned /\ sentences # <<>>) =>
        \A i \in 1..Len(captions) : captions[i].start < captions[i].end

C4_OneCaptionPerSentence ==
    Returned =>
        /\ Len(captions) = Len(sentences)
        /\ \A i \in 1..Len(sentences) : captions[i].text = sentences[i]

\* A call with three sentences, one of them empty and two of them different.
C4_Witness ==
    /\ Returned
    /\ Len(sentences) = 3
    /\ Len(captions) = 3
    /\ sentences[2] = ""
    /\ sentences[1] # sentences[3]

\* C5: the first caption starts at 0, each later caption starts where the
\* one before it ends, and starts and ends never decrease.
C5_Contiguous ==
    (Returned /\ sentences # <<>>) =>
        /\ captions # <<>>
        /\ captions[1].start = 0
        /\ \A i \in 2..Len(captions) :
              /\ captions[i].start = captions[i - 1].end
              /\ captions[i].start >= captions[i - 1].start
              /\ captions[i].end >= captions[i - 1].end

\* A call whose second caption is cut by the clamp and whose third follows it.
C5_Witness ==
    /\ Returned
    /\ Len(captions) = 3
    /\ TotalChars(sentences) > 0
    /\ captions[2].start > 0
    /\ captions[2].end = ScaledTotal(sentences, total_duration)
    /\ captions[3].start = captions[2].end

AllSharesAtLeastFloor ==
    /\ TotalChars(sentences) > 0
    /\ \A i \in 1..Len(sentences) : ShareOf(i) >= ScaledFloor(sentences)

\* C6: when every share is at least 1.2 s each caption's window is its share,
\* and the windows add up to total_duration.
C6_ProportionalWindows ==
    (Returned /\ AllSharesAtLeastFloor) =>
        /\ \A i \in 1..Len(captions) : CaptionLength(i) = ShareOf(i)
        /\ SumSeq([i \in 1..Len(captions) |-> CaptionLength(i)])
              = ScaledTotal(sentences, total_duration)

\* A call with sentences of different lengths, one of whose shares is above
\* 1.2 s and below 1.5 s.
C6_Witness ==
    /\ Returned
    /\ AllSharesAtLeastFloor
    /\ Len(sentences) >= 2
    /\ \E i, j \in 1..Len(sentences) : Len(sentences[i]) # Len(sentences[j])
    /\ \E i \in 1..Len(sentences) : ShareOf(i) < 15 * TotalChars(sentences)


(***************************************************************************)
(*              Claims about the project's version and backups             *)
(***************************************************************************)

\* A step in which a service call saved over an existing metadata file.
SavedOverExistingFile ==
    /\ meta_file # NoFile
    /\ clock' = clock + 1
    /\ last_call'.result = "ok"

\* C7 as stated: every successful editing, render or restore call stores a
\* version strictly greater than the version the metadata file held before it.
C7_VersionIncreases ==
    [][SavedOverExistingFile => meta_file'.version > meta_file.version]_vars

\* C8 as stated: when save_project overwrites a metadata file that carries
\* version N, the versions directory afterwards holds a backup for N whose
\* content is the overwritten blob.
C8_BackupOnWrite ==
    [][SavedOverExistingFile =>
          /\ meta_file.version \in DOMAIN backups'
          /\ backups'[meta_file.version] = meta_file]_vars

\* The same two statements for the calls other than restore_project_version.
EditKeepsVersionOrder ==
    [][(SavedOverExistingFile /\ last_call'.op # "restore_project_version")
          => meta_file'.version = meta_file.version + 1]_vars

\* The subtitle ids of the project a call would load (none when it has no
\* project to load).
LoadedIds ==
    IF LoadError = "none"
    THEN {LoadedData.captions[i].id : i \in 1..Len(LoadedData.captions)}
    ELSE {}

\* A step that is a call of update_subtitle or delete_subtitle_line naming a
\* subtitle id the project does not hold.
NamesAbsentSubtitle ==
    /\ last_call'.op \in {"update_subtitle", "delete_subtitle_line"}
    /\ last_subtitle_id' \notin LoadedIds

\* The call answers 404 and leaves the metadata file (and so its version), the
\* SRT file and the version backups as they were.
NotFoundAndNothingChanged ==
    /\ HttpStatus(last_call'.op, last_call'.result) = 404
    /\ UNCHANGED <<meta_file, srt_file, backups>>

\* C14 as stated: update_subtitle or delete_subtitle_line with a subtitle id
\* absent from the project, or any edit of a project with no metadata file,
\* fails with 404 and leaves the metadata file, its version, the SRT file and
\* the version backups unchanged.
C14_AbsentIs404 ==
    [][(NamesAbsentSubtitle \/ (last_call'.op \in EditingCalls /\ meta_file = NoFile))
          => NotFoundAndNothingChanged]_vars

\* C14 amended: the same for a subtitle id absent from a project that loads,
\* and for any edit of a project with neither a metadata file nor a legacy
\* <base_name>.json file.
C14_AbsentIs404UnlessLegacy ==
    [][( \/ (NamesAbsentSubtitle /\ LoadError = "none")
         \/ (last_call'.op \in EditingCalls /\ meta_file = NoFile /\ legacy_file = NoFile) )
          => NotFoundAndNothingChanged]_vars

\* delete_subtitle_line has just been refused for an absent id, or an edit for
\* a project whose files are gone.
C14_Witness ==
    \/ /\ last_call = [op |-> "delete_subtitle_line", result |-> "KeyError"]
       /\ last_subtitle_id = AbsentId
       /\ meta_file # NoFile
    \/ /\ last_call = [op |-> "add_subtitle", result |-> "FileNotFoundError"]
       /\ meta_file = NoFile /\ legacy_file = NoFile

(***************************************************************************)
(*                    Claims about the rendered base track                 *)
(***************************************************************************)

\* The base segments render_project walks, in its order.
RenderedBase == BaseSegments(SortByStart(timeline))

\* Those it makes a clip for (line 708 skips the others).
PlayedSegments == {k \in 1..Len(RenderedBase) : RenderedBase[k].end > RenderedBase[k].start}

\* concatenate_videoclips: clip i begins where the clips before it end.
ClipBegin(i) == SumSeq([j \in 1..(i - 1) |-> clips[j].duration])

\* The instants between which a gap can lie.
GapEnds == TimePoints \cup {0, base_duration}

\* [a, b) is a maximal interval of [0, base_duration] no base segment covers.
IsGap(a, b) ==
    /\ a < b
    /\ b <= base_duration
    /\ \A k \in PlayedSegments : RenderedBase[k].end <= a \/ RenderedBase[k].start >= b
    /\ a = 0 \/ \E k \in PlayedSegments : RenderedBase[k].end = a
    /\ b = base_duration \/ \E k \in PlayedSegments : RenderedBase[k].start = b

\* C9 as stated: every base segment's clip begins at the segment's start, every
\* gap is occupied by a filler clip of the gap's length, and the clips add up
\* to the project duration.
C9_BaseTrackGapFilled ==
    render_pc = "built" =>
        /\ \A k \in PlayedSegments :
              \E i \in 1..Len(clips) :
                  /\ clips[i].kind = "segment"
                  /\ clips[i].segment = k
                  /\ ClipBegin(i) = RenderedBase[k].start
        /\ \A a \in GapEnds, b \in GapEnds :
              IsGap(a, b) =>
                  \E i \in 1..Len(clips) :
                      /\ clips[i].kind = "filler"
                      /\ ClipBegin(i) = a
                      /\ clips[i].duration = b - a
        /\ SumSeq([i \in 1..Len(clips) |-> clips[i].duration]) = base_duration

\* Base segments that do not overlap, lie inside the project, are at least
\* 0.1 s long and leave no gap of 1 ms or less.
WellFormedBase ==
    /\ \A k \in 1..Len(RenderedBase) :
          /\ RenderedBase[k].end - RenderedBase[k].start >= MinClipMs
          /\ RenderedBase[k].end <= base_duration
    /\ \A k \in 2..Len(RenderedBase) :
          \/ RenderedBase[k].start = RenderedBase[k - 1].end
          \/ RenderedBase[k].start > RenderedBase[k - 1].end + GapToleranceMs
    /\ Len(RenderedBase) >= 1 =>
          (RenderedBase[1].start = 0 \/ RenderedBase[1].start > GapToleranceMs)
    /\ Len(RenderedBase) >= 1 =>
          \/ RenderedBase[Len(RenderedBase)].end = base_duration
          \/ RenderedBase[Len(RenderedBase)].end < base_duration - GapToleranceMs
    /\ Len(RenderedBase) = 0 => base_duration > GapToleranceMs

\* The statement of C9 for well-formed base segments.
BaseTrackGapFilledWhenWellFormed ==
    WellFormedBase => C9_BaseTrackGapFilled

(***************************************************************************)
(*                 Claims about the crawler's busy flag                    *)
(***************************************************************************)

\* The requests whose run_scraper thread is inside its try block.
ScrapersRunning == {r \in Requests : thread_pc[r] \in {"scraping", "finishing"}}

\* The requests whose job has been accepted and has not finished.
JobsInFlight == {r \in Requests : thread_pc[r] \in {"started", "scraping", "finishing"}}

\* C10 as stated: at most one scraping job is in flight, so that two
\* run_scraper threads never execute at the same time.
C10_OneScraperAtATime ==
    /\ Cardinality(JobsInFlight) <= 1
    /\ Cardinality(ScrapersRunning) <= 1

(***************************************************************************)
(*                 Claims about the rank server's busy flag                *)
(***************************************************************************)

\* C11 as stated: at most one perform_search executes at any time, under
\* any interleaving of start_search, stop_search and the scheduler's job.
C11_OnePerformSearch == Cardinality(Executing) <= 1

\* The threads that have been started and have not returned.
SearchesInFlight == {t \in Searches : rank_pc[t] \in {"spawned", "load", "setup", "loop", "row", "finally"}}

\* C19 as stated: whenever no perform_search is executing (none started and
\* not yet returned), search_active is False, on every exit path.
C19_FlagReleased == (SearchesInFlight = {}) => ~search_active

\* C20 as stated: after a stop_search request with no later start_search, a
\* perform_search that was executing starts no further keyword row.
C20_StopStartsNoFurtherRow ==
    [][\A t \in stop_pending : ~(rank_pc[t] = "loop" /\ rank_pc'[t] = "row")]_vars

(***************************************************************************)
(*             Claims about the video pipeline's job requests              *)
(***************************************************************************)

\* The generation and render jobs under way.
JobsRunning == {j \in Jobs : job_pc[j] = "running"}

\* C12 as stated: one generation/render job at a time; a request that
\* arrives while another job is running is not executed next to it.
C12_OneJobAtATime == Cardinality(JobsRunning) <= 1

(***************************************************************************)
(*                    Claims about concurrent edits                        *)
(***************************************************************************)

\* The file holds the subtitle line request e added.
HasLineOf(file, e) ==
    /\ file # NoFile
    /\ \E i \in 1..Len(file.captions) : file.captions[i].id = EditId(e)

\* C13: when a request saves after another request that loaded the same
\* version has already answered 200, it answers 200 too, the file it leaves
\* has the version advanced by one (not two), and holds its own line but not
\* the other request's line.
C13_LostUpdateUndetected ==
    [][\A a, b \in Edits :
          ( /\ a # b
            /\ edit_pc[a] = "answered" /\ edit_answer[a] = "200"
            /\ edit_pc[b] = "loaded" /\ edit_pc'[b] = "answered"
            /\ edit_base[a] = edit_base[b] )
          => /\ edit_answer'[b] = "200"
             /\ meta_file'.version = edit_base[b] + 1
             /\ HasLineOf(meta_file', b)
             /\ ~HasLineOf(meta_file', a)]_vars

\* Two requests that loaded the same version have both answered 200, and
\* the file holds the line of only one of them, one version on.
C13_Witness ==
    \E a, b \in Edits :
        /\ a # b
        /\ edit_answer[a] = "200" /\ edit_answer[b] = "200"
        /\ edit_base[a] = edit_base[b]
        /\ meta_file.version = edit_base[a] + 1
        /\ HasLineOf(meta_file, b) /\ ~HasLineOf(meta_file, a)

(***************************************************************************)
(*                     Claims about _build_segments                        *)
(***************************************************************************)

\* The call was made without a usable subtitle file and with a positive
\* duration.
CutFromDuration ==
    bs_subtitle # "usable" /\ bs_duration # None /\ bs_duration[1] > 0

\* The call was made without a usable subtitle file and without a positive
\* duration.
NoDuration ==
    bs_subtitle # "usable" /\ (bs_duration = None \/ bs_duration[1] <= 0)

\* The segments lie end to start from 0 on, numbered from 0.
Chained(segments) ==
    /\ segments # <<>>
    /\ segments[1].start = 0
    /\ \A i \in 2..Len(segments) : segments[i].start = segments[i - 1].end
    /\ \A i \in 1..Len(segments) : segments[i].clip_index = i - 1

\* The return value for a call without a positive duration.
SingleSegmentOfMaxLength ==
    bs_segments = <<[clip_index |-> 0, start |-> 0, end |-> bs_max_length]>>

CallBegins(op) ==
    /\ tp_started' = tp_started + 1
    /\ IF tp_call' = tp_call
       THEN tp_last'.op = op
       ELSE \E w \in Workers : tp_call[w] = IdleCall /\ tp_call'[w] # IdleCall /\ tp_call'[w].op = op

\* The call that begins in this step returns the project as it is stored
\* and leaves the project file and the version files alone.
ReturnsProjectUntouched(op) ==
    /\ tp_last' = [op |-> op, outcome |-> "skipped", project |-> tp_file]
    /\ UNCHANGED <<tp_file, tp_versions, tp_statuses, tp_call>>

\* C21: translate_project_segments called when the status is not
\* "segmenting" or "draft", synthesize_voice_for_project called when it is
\* not "voice_ready" and render_translated_project called when it is not
\* "voice_complete" return the project without changing its status, its
\* segments or the stored file and without adding a translation version.
C21_GuardedStepChangesNothing ==
    [][/\ CallBegins("translate_project_segments") /\ tp_file.status \notin {"segmenting", "draft"}
            => ReturnsProjectUntouched("translate_project_segments")
       /\ CallBegins("synthesize_voice_for_project") /\ tp_file.status # "voice_ready"
            => ReturnsProjectUntouched("synthesize_voice_for_project")
       /\ CallBegins("render_translated_project") /\ tp_file.status # "voice_complete"
            => ReturnsProjectUntouched("render_translated_project")]_vars

\* Voice synthesis was asked for while the translation was running, and it
\* returned the project as stored, still "translating".
C21_Witness ==
    /\ tp_last = [op |-> "synthesize_voice_for_project", outcome |-> "skipped", project |-> tp_file]
    /\ tp_file.status = "translating"
    /\ tp_versions = 2

\* A call ends in this step because something failed: an external call
\* raised, or there was no source or script text.
StepFails ==
    \E w \in Workers :
        /\ tp_call[w] # IdleCall
        /\ tp_call'[w] = IdleCall
        /\ tp_last'.outcome = "failed"

\* A call is between the save of its transient status and its last save.
InTransientPart(w) ==
    \/ tp_call[w].op = "translate_project_segments" /\ tp_call[w].pc = "external"
    \/ tp_call[w].op = "synthesize_voice_for_project" /\ tp_call[w].pc = "external"

\* C22: a pipeline step that fails (the translation, TTS or render call
\* raises, or there is no source or script text) ends with the project saved
\* as "failed" with extra["error"] set, and the stored status is "translating"
\* or "rendering" only while a step is at its external call.
C22_FailedStepIsSavedAsFailed ==
    /\ [][StepFails => tp_file'.status = "failed" /\ tp_file'.error # None
                       /\ tp_last'.project = tp_file']_vars
    /\ [](tp_file.status \in {"translating", "rendering"} => \E w \in Workers : InTransientPart(w))

\* The TTS call raised: the project had been saved as "rendering" and is
\* now saved as "failed".
C22_Witness ==
    /\ tp_last.op = "synthesize_voice_for_project"
    /\ tp_last.outcome = "failed"
    /\ tp_file.status = "failed"
    /\ tp_file.error = Some("synthesize_voice")
    /\ \E i \in 1..Len(tp_statuses) : tp_statuses[i] = "rendering"
    /\ \A w \in Workers : tp_call[w] = IdleCall

\* The statuses written so far hold the given ones in the given order.
RECURSIVE InOrder(_, _)
InOrder(statuses, wanted) ==
    IF wanted = <<>> THEN TRUE
    ELSE IF statuses = <<>> THEN FALSE
    ELSE IF Head(statuses) = Head(wanted) THEN InOrder(Tail(statuses), Tail(wanted))
    ELSE InOrder(Tail(statuses), wanted)

\* "rendered" is stored only after "translating", "voice_ready", "rendering"
\* and "voice_complete" have been stored, in this order.
RenderedAfterEveryStep ==
    tp_file.status = "rendered"
        => InOrder(tp_statuses, <<"translating", "voice_ready", "rendering", "voice_complete", "rendered">>)

\* No step writes another status over "failed" or "rendered".
TerminalStatusStays ==
    tp_file.status \in {"failed", "rendered"} => tp_file'.status = tp_file.status

\* As long as nothing has failed, completed_steps() of the stored project
\* has never gone down.
StepsNeverDecrease ==
    (\A i \in 1..Len(tp_statuses) : tp_statuses[i] # "failed")
        => \A i \in 1..(Len(tp_statuses) - 1) :
               completed_steps(tp_statuses[i]) <= completed_steps(tp_statuses[i + 1])

\* C23 as stated: with the pipeline operations only, a project is "rendered"
\* only after "translating", "voice_ready", "rendering" and "voice_complete"
\* in this order; once "failed" or "rendered" its status is not changed
\* again; completed_steps() never decreases along a successful run.
C23_PipelineOrder ==
    /\ []RenderedAfterEveryStep
    /\ [][TerminalStatusStays]_vars
    /\ []StepsNeverDecrease

\* C24 as stated: every operation stores a status that is one of the eight
\* declared values, reset_project_to_translated included, so that
\* load_project accepts the stored project.
C24_StoredStatusIsDeclared ==
    /\ tp_file.status \in DeclaredStatuses
    /\ tp_last.outcome # "ValueError"

\* The ids of the segments of a list, as a set.
SegmentIds(segments) == {segments[i].id : i \in 1..Len(segments)}

\* The orders of a list that name a segment of the project, sorted by
\* new_index.
OrdersFound(segments, segment_orders) ==
    SelectSeq(SortByNewIndex(segment_orders),
              LAMBDA order : order.segment_id \in SegmentIds(segments))

\* C25 as stated: reorder_project_segments only reorders: for any
\* segment_orders list the saved project has the segment ids it had (none
\* dropped, none twice), and its segments stand in ascending new_index order,
\* each with the given new_index as clip_index.
C25_ReorderOnlyReorders ==
    (tp_last.op = "reorder_project_segments" /\ tp_last.outcome = "done") =>
        LET before == tp_last.loaded.segments
            after == tp_last.project.segments
            found == OrdersFound(before, tp_last.segment_orders)
        IN /\ SegmentIds(after) = SegmentIds(before)
           /\ Len(after) = Len(before)
           /\ Len(after) = Len(found)
           /\ \A k \in 1..Len(after) :
                  /\ after[k].id = found[k].segment_id
                  /\ after[k].clip_index = found[k].new_index

(***************************************************************************)
(*                 Claims about editing translator segments                *)
(***************************************************************************)

\* The request just handled is a segments/time request for a project that
\* exists and a segment it has, with 0 <= start_time < end_time.
ValidTimeEdit ==
    /\ tr_request'.route = "segments/time"
    /\ tr_file # NoFile
    /\ tr_request'.payload.segment_id # None
    /\ tr_request'.payload.start_time # None
    /\ tr_request'.payload.end_time # None
    /\ FindSegment(tr_file, tr_request'.payload.segment_id[1]) # 0
    /\ 0 <= tr_request'.payload.start_time[1]
    /\ tr_request'.payload.start_time[1] < tr_request'.payload.end_time[1]

\* C15 as stated: a valid segments/time request persists the new start and
\* end of the segment and answers success.
C15_TimeEditSucceeds ==
    [][ValidTimeEdit =>
          LET i == FindSegment(tr_file, tr_request'.payload.segment_id[1])
          IN /\ tr_file'.segments[i].start = tr_request'.payload.start_time[1]
             /\ tr_file'.segments[i].end = tr_request'.payload.end_time[1]
             /\ tr_response'.status = 200]_vars

\* The request just handled is one the handlers check for: a segments/time
\* request with a missing field, start_time >= end_time or a negative time,
\* or a segments request without segment_id or text_type.
InvalidSegmentEdit ==
    \/ /\ tr_request'.route = "segments/time"
       /\ \/ tr_request'.payload.segment_id = None
          \/ tr_request'.payload.start_time = None
          \/ tr_request'.payload.end_time = None
          \/ tr_request'.payload.start_time[1] >= tr_request'.payload.end_time[1]
          \/ tr_request'.payload.start_time[1] < 0
          \/ tr_request'.payload.end_time[1] < 0
    \/ /\ tr_request'.route = "segments"
       /\ \/ tr_request'.payload.segment_id = None
          \/ tr_request'.payload.text_type = None

\* C16 as stated: an invalid segment-edit request is answered with 400 (not
\* 500) and nothing is saved.
C16_InvalidEditIs400 ==
    [][InvalidSegmentEdit =>
          /\ tr_response'.status = 400
          /\ UNCHANGED <<tr_file, tr_versions>>]_vars

(***************************************************************************)
(*                       Claims about retrying                             *)
(***************************************************************************)

\* The navigations that have failed so far in this scrape.
GotoFailures == IF scrape_pc \in {"launch", "context", "goto"} \/ scrape_error = "goto"
                THEN goto_calls ELSE goto_calls - 1

\* C17 as stated: a failed navigation to the search page ends the scrape
\* with an error after that single attempt.
C17_NoRetry ==
    GotoFailures >= 1 => (scrape_pc = "raised" /\ scrape_error = "goto" /\ goto_calls = 1)

\* C17 amended: a failed navigation is attempted again until max_retries
\* attempts have been made; the scrape ends with the navigation's error
\* exactly when the last of them has failed, and no scrape makes more.
C17_RetryUpToMaxRetries ==
    /\ goto_calls <= max_retries
    /\ (scrape_pc = "goto" => goto_calls = goto_attempt /\ goto_calls < max_retries)
    /\ (scrape_error = "goto" => scrape_pc = "raised" /\ goto_calls = max_retries)

\* The navigation failed max_retries times and the scrape ended with its
\* error; or it succeeded after a failure.
C17_Witness ==
    \/ scrape_error = "goto" /\ goto_calls = max_retries
    \/ scrape_pc = "loaded" /\ goto_calls = 2

(***************************************************************************)
(*                     Claims about search_product                         *)
(***************************************************************************)

\* C18 as stated: search_product ends after examining at most 27 result
\* pages, whatever the browser answers: its loop makes at most 27 passes.
C18_AtMost27Passes == page_loads <= LastPage

\* The same as a liveness property of SpecPagesFair: every call returns.
SearchProductReturns == <>(sp_pc = "returned")

=============================================================================
